---- MODULE Spec2Model ----
(***************************************************************************)
(* A model of decaf-emu's IPC + filesystem command pipeline:               *)
(*   - the fixed-capacity request FIFO and the per-core IPC driver         *)
(*     (modules/coreinit/coreinit_ipc.cpp),                                *)
(*   - the kernel IOS dispatcher and its handle table                      *)
(*     (kernel/kernel_ios.cpp),                                            *)
(*   - the FS command block reply / finish / requeue protocol              *)
(*     (modules/coreinit/coreinit_fs_cmdblock.cpp).                        *)
(* Each subsystem has its own specification over the shared variables:     *)
(* SpecFifo, SpecIpc, SpecIos and SpecFs.                                  *)
(***************************************************************************)
EXTENDS Integers, Sequences, FiniteSets, TLC

(***************************************************************************)
(* Bounds of the model.                                                    *)
(***************************************************************************)

\* Number of IPC buffers / requests per driver (IPCBufferCount in the
\* source; its header value is scaled down here).
IPCBufferCount == 2

\* Number of guest threads that call into one core's driver.
NumThreads == 2

\* Cap on driver->requestsSubmitted (total submissions in a run).
MaxSubmitted == 3

\* Cap on the number of dispatches in the dispatcher-only specification.
MaxDispatch == 5

\* FSCmdBlocks of the one FS client.
NumBlocks == 2

\* FS commands the client's user submits in a behaviour.
MaxFsSubmits == 2

\* FSMaxBytesPerRequest, scaled down: the largest read the FSA device is
\* asked for in one request.
FSMaxBytesPerRequest == 2

\* FSReadFile element counts run from 1 to MaxReadCount.
MaxReadCount == 3

\* Capacity of the message queues results are posted to.
MsgQueueCap == 1

\* The number of values of a 32-bit word, scaled down: the read counters
\* are unsigned words and wrap modulo WordRange.
WordRange == 1024

(***************************************************************************)
(* Enumerations.                                                           *)
(***************************************************************************)

\* nullptr for request / buffer / block pointers (indices are >= 0).
nullptr == -1

\* IOSError: OK is 0, every error is negative (the reply channel carries a
\* handle >= 0 or an error < 0).
IOSError ==
  [OK |-> 0, NoExists |-> -6, QEmpty |-> -7, QFull |-> -8,
   NotReady |-> -10, InvalidHandle |-> -23, FailInternal |-> -29]

\* IOSCommand tags.
IOSCommand ==
  [Invalid |-> 0, Open |-> 1, Close |-> 2, Read |-> 3, Write |-> 4,
   Seek |-> 5, Ioctl |-> 6, Ioctlv |-> 7, Reply |-> 8]

\* IPCDriverStatus.
IPCDriverStatus ==
  [Uninit |-> "Uninit", Closed |-> "Closed",
   Initialised |-> "Initialised", Open |-> "Open"]

Requests == 0 .. (IPCBufferCount - 1)

(***************************************************************************)
(* IPCDriverFIFO (coreinit_ipc.cpp).                                       *)
(***************************************************************************)

\* ipcDriverFifoInit: the FIFO it leaves behind.
ipcDriverFifoInit ==
  [pushIndex |-> 0, popIndex |-> -1, count |-> 0, maxCount |-> 0,
   requests |-> [i \in Requests |-> nullptr]]

\* ipcDriverFifoPush, changed: it has no full check.
ipcDriverFifoPush_NoFullCheck(fifo, request) ==
  LET f1 == [fifo EXCEPT !.requests[fifo.pushIndex] = request]
      f2 == IF f1.popIndex = -1 THEN [f1 EXCEPT !.popIndex = f1.pushIndex] ELSE f1
      f3 == [f2 EXCEPT !.count = @ + 1,
                       !.pushIndex = (f2.pushIndex + 1) % IPCBufferCount]
      f4 == IF f3.count > f3.maxCount THEN [f3 EXCEPT !.maxCount = f3.count] ELSE f3
  IN  [error |-> IOSError.OK, fifo |-> f4]

\* ipcDriverFifoPush, changed: it does not seed popIndex on the first
\* push into an empty FIFO.
ipcDriverFifoPush_NoPopSeed(fifo, request) ==
  IF fifo.pushIndex = fifo.popIndex
  THEN [error |-> IOSError.QFull, fifo |-> fifo]
  ELSE LET f1 == [fifo EXCEPT !.requests[fifo.pushIndex] = request]
           f3 == [f1 EXCEPT !.count = @ + 1,
                            !.pushIndex = (f1.pushIndex + 1) % IPCBufferCount]
           f4 == IF f3.count > f3.maxCount THEN [f3 EXCEPT !.maxCount = f3.count] ELSE f3
       IN  [error |-> IOSError.OK, fifo |-> f4]

\* ipcDriverFifoPush: [error, fifo'].
ipcDriverFifoPush(fifo, request) ==
  IF fifo.pushIndex = fifo.popIndex
  THEN [error |-> IOSError.QFull, fifo |-> fifo]
  ELSE LET f1 == [fifo EXCEPT !.requests[fifo.pushIndex] = request]
           f2 == IF f1.popIndex = -1 THEN [f1 EXCEPT !.popIndex = f1.pushIndex] ELSE f1
           f3 == [f2 EXCEPT !.count = @ + 1,
                            !.pushIndex = (f2.pushIndex + 1) % IPCBufferCount]
           f4 == IF f3.count > f3.maxCount THEN [f3 EXCEPT !.maxCount = f3.count] ELSE f3
       IN  [error |-> IOSError.OK, fifo |-> f4]

\* ipcDriverFifoPop, changed: it hands out the request pushed last.
ipcDriverFifoPop_Newest(fifo) ==
  IF fifo.popIndex = -1
  THEN [error |-> IOSError.QEmpty, fifo |-> fifo, request |-> nullptr]
  ELSE LET request ==
             fifo.requests[(fifo.pushIndex + IPCBufferCount - 1)
                              % IPCBufferCount]
           f1 == [fifo EXCEPT !.count = @ - 1]
           f2 == IF f1.count = 0
                 THEN [f1 EXCEPT !.popIndex = -1]
                 ELSE [f1 EXCEPT !.popIndex = (f1.popIndex + 1) % IPCBufferCount]
       IN  [error |-> IOSError.OK, fifo |-> f2, request |-> request]

\* ipcDriverFifoPop: [error, fifo', request] (request is *requestOut; it is
\* left as nullptr, the caller's initial value, on QEmpty).
ipcDriverFifoPop(fifo) ==
  IF fifo.popIndex = -1
  THEN [error |-> IOSError.QEmpty, fifo |-> fifo, request |-> nullptr]
  ELSE LET request == fifo.requests[fifo.popIndex]
           f1 == [fifo EXCEPT !.count = @ - 1]
           f2 == IF f1.count = 0
                 THEN [f1 EXCEPT !.popIndex = -1]
                 ELSE [f1 EXCEPT !.popIndex = (f1.popIndex + 1) % IPCBufferCount]
       IN  [error |-> IOSError.OK, fifo |-> f2, request |-> request]

\* The requests a FIFO holds, oldest first (its slots popIndex, popIndex+1,
\* ... modulo the capacity, count of them).
FifoContents(fifo) ==
  [k \in 1 .. fifo.count |->
     fifo.requests[(fifo.popIndex + k - 1) % IPCBufferCount]]

\* How many times request r is stored in the FIFO.
FifoOccurrences(fifo, r) ==
  Cardinality({k \in 1 .. fifo.count : FifoContents(fifo)[k] = r})

VARIABLES
  fifo,        \* SpecFifo: one IPCDriverFIFO
  fifoShadow,  \* SpecFifo: the requests pushed and not yet popped, oldest first
  fifoCall     \* SpecFifo: the last FIFO call: op, error, FIFO before, request out

fifoVars == <<fifo, fifoShadow, fifoCall>>

FifoVarsInit ==
  /\ fifo = ipcDriverFifoInit
  /\ fifoShadow = <<>>
  /\ fifoCall = [op |-> "init", error |-> IOSError.OK,
                 before |-> ipcDriverFifoInit, request |-> nullptr]

(***************************************************************************)
(* Kernel IOS dispatcher (kernel_ios.cpp).                                 *)
(***************************************************************************)

\* sDeviceMap after iosInitDevices: the registered device names.
sDeviceMap == {"/dev/fsa"}

\* Device names a guest may ask to open.
DeviceNames == {"/dev/fsa", "/dev/x"}

\* What IOSDevice::open may return (OK, or an error of the device).
DeviceOpenResults == {IOSError.OK, IOSError.NotReady}

\* What IOSDevice::close may return.
DeviceCloseResults == {IOSError.OK, IOSError.FailInternal}

\* What IOSDevice::ioctl / ioctlv may return (a status >= 0 or an error).
DeviceIoctlResults == {IOSError.OK, IOSError.NoExists}

\* Every value a device method may hand back.
DeviceResults == DeviceOpenResults \cup DeviceCloseResults \cup DeviceIoctlResults

\* An IPCBuffer as allocate leaves it, for a request (command, handle)
\* whose buffer1 names `name`; prev holds the buffer's earlier contents.
StampBuffer(prev, command, handle) ==
  [prev EXCEPT !.command = command, !.handle = handle, !.reply = IOSError.OK]

\* A zeroed IPCBuffer.
ZeroBuffer ==
  [command |-> IOSCommand.Invalid, handle |-> 0, reply |-> IOSError.OK,
   prevCommand |-> IOSCommand.Invalid, prevHandle |-> 0, buffer1 |-> ""]

\* iosOpen, changed: it reuses the lowest free handle.
iosOpen_ReuseHandle(name, devRes, map, handles) ==
  IF name \notin sDeviceMap
  THEN [reply |-> IOSError.NoExists, map |-> map, handles |-> handles]
  ELSE IF devRes # IOSError.OK
  THEN [reply |-> devRes, map |-> map, handles |-> handles]
  ELSE LET handle == CHOOSE h \in 1 .. handles :
                        /\ h \notin DOMAIN map
                        /\ \A k \in 1 .. (h - 1) : k \in DOMAIN map
       IN  [reply |-> handle,
            map |-> [h \in DOMAIN map \cup {handle} |->
                       IF h = handle THEN name ELSE map[h]],
            handles |-> IF handle = handles THEN handles + 1 ELSE handles]

\* iosOpen, changed: it takes a handle before the device's open is
\* known to have succeeded.
iosOpen_EarlyHandle(name, devRes, map, handles) ==
  IF name \notin sDeviceMap
  THEN [reply |-> IOSError.NoExists, map |-> map, handles |-> handles]
  ELSE IF devRes # IOSError.OK
  THEN [reply |-> devRes, map |-> map, handles |-> handles + 1]
  ELSE [reply |-> handles,
        map |-> [h \in DOMAIN map \cup {handles} |->
                   IF h = handles THEN name ELSE map[h]],
        handles |-> handles + 1]

\* iosOpen(name, nameLen, mode): [reply, sOpenDeviceMap', DeviceHandles'].
\* devRes is what device->open(mode) returns.
iosOpen(name, devRes, map, handles) ==
  IF name \notin sDeviceMap
  THEN [reply |-> IOSError.NoExists, map |-> map, handles |-> handles]
  ELSE IF devRes # IOSError.OK
  THEN [reply |-> devRes, map |-> map, handles |-> handles]
  ELSE [reply |-> handles,
        map |-> [h \in DOMAIN map \cup {handles} |->
                   IF h = handles THEN name ELSE map[h]],
        handles |-> handles + 1]

\* iosGetDevice(handle): the device, or "nullptr".
iosGetDevice(map, handle) ==
  IF handle \notin DOMAIN map THEN "nullptr" ELSE map[handle]

\* iosClose, changed: it leaves the device in the handle table.
iosClose_NoErase(handle, devRes, map) ==
  IF iosGetDevice(map, handle) = "nullptr"
  THEN [reply |-> IOSError.InvalidHandle, map |-> map]
  ELSE [reply |-> devRes, map |-> map]

\* iosClose(handle): [reply, sOpenDeviceMap'].  devRes is what
\* device->close() returns.
iosClose(handle, devRes, map) ==
  IF iosGetDevice(map, handle) = "nullptr"
  THEN [reply |-> IOSError.InvalidHandle, map |-> map]
  ELSE [reply |-> devRes,
        map |-> [h \in DOMAIN map \ {handle} |-> map[h]]]

\* The commands iosDispatchIpcRequest implements.
DispatchableCommands ==
  {IOSCommand.Open, IOSCommand.Close, IOSCommand.Ioctl, IOSCommand.Ioctlv}

\* The reply set-up at the end of iosDispatchIpcRequest.
SetupReply(buffer, reply) ==
  [buffer EXCEPT !.prevHandle = buffer.handle,
                 !.prevCommand = buffer.command,
                 !.reply = reply,
                 !.command = IOSCommand.Reply]

\* iosDispatchIpcRequest(buffer):
\* [buffer', sOpenDeviceMap', DeviceHandles', aborted].
iosDispatchIpcRequest(buffer, devRes, map, handles) ==
  CASE buffer.command = IOSCommand.Open ->
         LET r == iosOpen(buffer.buffer1, devRes, map, handles)
         IN  [buffer |-> SetupReply(buffer, r.reply), map |-> r.map,
              handles |-> r.handles, aborted |-> FALSE]
    [] buffer.command = IOSCommand.Close ->
         LET r == iosClose(buffer.handle, devRes, map)
         IN  [buffer |-> SetupReply(buffer, r.reply), map |-> r.map,
              handles |-> handles, aborted |-> FALSE]
    [] buffer.command \in {IOSCommand.Ioctl, IOSCommand.Ioctlv} ->
         LET reply == IF iosGetDevice(map, buffer.handle) = "nullptr"
                      THEN IOSError.InvalidHandle
                      ELSE devRes
         IN  [buffer |-> SetupReply(buffer, reply), map |-> map,
              handles |-> handles, aborted |-> FALSE]
    [] OTHER ->
         [buffer |-> buffer, map |-> map, handles |-> handles,
          aborted |-> TRUE]

\* What the device method called for `buffer` may return.
DeviceResultsFor(buffer) ==
  CASE buffer.command = IOSCommand.Open -> DeviceOpenResults
    [] buffer.command = IOSCommand.Close -> DeviceCloseResults
    [] OTHER -> DeviceIoctlResults

VARIABLES
  sOpenDeviceMap,  \* open IOSHandle -> device (its name)
  DeviceHandles,   \* iosOpen's static handle counter
  aborted,         \* decaf_abort was reached: the process has stopped
  iosCall,         \* the last dispatch: request buffer, device result, buffer after
  iosOpened,       \* the handles successful Opens returned, oldest first
  iosClosed,       \* the handles whose Close reached the device
  dispatchCount    \* dispatches so far

iosVars ==
  <<sOpenDeviceMap, DeviceHandles, aborted, iosCall, iosOpened, iosClosed,
    dispatchCount>>

IosVarsInit ==
  /\ sOpenDeviceMap = <<>>
  /\ DeviceHandles = 1
  /\ aborted = FALSE
  /\ iosCall = [op |-> "none", request |-> ZeroBuffer, devRes |-> IOSError.OK,
                buffer |-> ZeroBuffer, mapBefore |-> <<>>, handlesBefore |-> 1]
  /\ iosOpened = <<>>
  /\ iosClosed = {}
  /\ dispatchCount = 0

\* The kernel runs iosDispatchIpcRequest on `buffer`; the device method it
\* calls returns devRes.
IosDispatch(buffer, devRes) ==
  LET r == iosDispatchIpcRequest(buffer, devRes, sOpenDeviceMap, DeviceHandles)
  IN  /\ sOpenDeviceMap' = r.map
      /\ DeviceHandles' = r.handles
      /\ aborted' = r.aborted
      /\ iosCall' = [op |-> "dispatch", request |-> buffer, devRes |-> devRes,
                     buffer |-> r.buffer, mapBefore |-> sOpenDeviceMap,
                     handlesBefore |-> DeviceHandles]
      /\ iosOpened' = IF buffer.command = IOSCommand.Open /\ r.buffer.reply > 0
                      THEN Append(iosOpened, r.buffer.reply) ELSE iosOpened
      /\ iosClosed' = IF /\ buffer.command = IOSCommand.Close
                         /\ buffer.handle \in DOMAIN sOpenDeviceMap
                      THEN iosClosed \cup {buffer.handle} ELSE iosClosed
      /\ dispatchCount' = dispatchCount + 1


(***************************************************************************)
(* Per-core IPC driver (coreinit_ipc.cpp), one core.                       *)
(***************************************************************************)

Threads == 1 .. NumThreads

\* An OSEvent (auto-reset): its value and the threads sleeping on it.
\* OSInitEvent(event, FALSE, AutoReset).
OSInitEvent == [value |-> FALSE, queue |-> {}]

\* The device handle and device name the driver's callers use.
IpcHandleInputs == {1}
IpcNameInputs == {"/dev/fsa"}

\* The commands the driver's callers submit.
IpcCommandInputs == {IOSCommand.Ioctl}

\* Thread record of a thread that is in no IPC call.
IdleThread ==
  [pc |-> "idle", request |-> nullptr, handle |-> 0,
   command |-> IOSCommand.Invalid, async |-> FALSE]

VARIABLES
  driver,       \* the core's IPCDriver
  ipcBuffers,   \* the core's IPCBuffers
  threads,      \* each guest thread's position in its IPC call
  kernelQueue,  \* buffers submitted to the kernel and not yet dispatched
  ipcCall       \* the last driver call: op, error, status before, frame

ipcVars == <<driver, ipcBuffers, threads, kernelQueue, ipcCall>>

VARIABLES
  fs,           \* the FS client, its command blocks and its message queues
  appIo,        \* what the AppIO thread still has to run for the reply it handles
  fsUser,       \* what the user thread still has to run for its FS call
  fsCall        \* the last FS call of the user thread

fsVars == <<fs, appIo, fsUser, fsCall>>

vars == <<fifoVars, iosVars, ipcVars, fsVars>>

\* The driver as zeroed memory (sIpcData before IPCDriverInit).
IpcVarsInit ==
  /\ driver =
       [status |-> IPCDriverStatus.Uninit,
        initialisedRequests |-> FALSE,
        freeFifo |-> [pushIndex |-> 0, popIndex |-> 0, count |-> 0,
                      maxCount |-> 0,
                      requests |-> [i \in Requests |-> nullptr]],
        outboundFifo |-> [pushIndex |-> 0, popIndex |-> 0, count |-> 0,
                          maxCount |-> 0,
                          requests |-> [i \in Requests |-> nullptr]],
        requests |-> [i \in Requests |->
                        [ipcBuffer |-> nullptr, allocated |-> FALSE,
                         asyncCallback |-> FALSE,
                         finishEvent |-> OSInitEvent]],
        responses |-> <<>>,
        waitingFreeFifo |-> FALSE,
        waitFreeFifoEvent |-> OSInitEvent,
        failedAllocateRequestBlock |-> 0,
        failedFreeRequestBlock |-> 0,
        outOfBoundsRequestUsed |-> FALSE,
        requestsSubmitted |-> 0,
        requestsProcessed |-> 0]
  /\ ipcBuffers = [i \in Requests |-> ZeroBuffer]
  /\ threads = [t \in Threads |-> IdleThread]
  /\ kernelQueue = <<>>
  /\ ipcCall = [op |-> "none", error |-> IOSError.OK,
                statusBefore |-> IPCDriverStatus.Uninit, frame |-> TRUE]

\* IPCDriverInit: the driver it leaves behind.
IPCDriverInit(d) ==
  [d EXCEPT !.waitFreeFifoEvent = OSInitEvent,
            !.status = IPCDriverStatus.Initialised]

\* The free FIFO after IPCDriverOpen's seeding loop has pushed requests
\* 0 .. i-1 into f.
RECURSIVE SeedFreeFifo(_, _)
SeedFreeFifo(f, i) ==
  IF i = 0 THEN f
  ELSE ipcDriverFifoPush(SeedFreeFifo(f, i - 1), i - 1).fifo

\* IPCDriverOpen: [error, driver'].
IPCDriverOpen(d) ==
  IF /\ d.status # IPCDriverStatus.Closed
     /\ d.status # IPCDriverStatus.Initialised
  THEN [error |-> IOSError.NotReady, driver |-> d]
  ELSE [error |-> IOSError.OK,
        driver |->
          [d EXCEPT
             !.requests = [i \in Requests |->
                             [d.requests[i] EXCEPT !.ipcBuffer = i,
                                                   !.asyncCallback = FALSE]],
             !.initialisedRequests = TRUE,
             !.freeFifo = SeedFreeFifo(ipcDriverFifoInit, IPCBufferCount),
             !.outboundFifo = ipcDriverFifoInit]]

\* IPCDriverClose: the driver it leaves behind.
IPCDriverClose(d) ==
  [d EXCEPT !.status = IPCDriverStatus.Closed]

\* ipcDriverFreeRequest(driver, request): [error, driver'].
ipcDriverFreeRequest(d, request) ==
  LET res == ipcDriverFifoPush(d.freeFifo, request)
      d1 == [d EXCEPT !.freeFifo = res.fifo,
                      !.requests[request].allocated = FALSE]
  IN  [error |-> res.error,
       driver |-> IF res.error # IOSError.OK
                  THEN [d1 EXCEPT !.failedFreeRequestBlock = @ + 1]
                  ELSE d1]

\* OSSignalEventAll(&driver->waitFreeFifoEvent): [driver', woken threads].
SignalWaitFreeFifo(d) ==
  IF d.waitFreeFifoEvent.value
  THEN [driver |-> d, woken |-> {}]
  ELSE IF d.waitFreeFifoEvent.queue # {}
  THEN [driver |-> [d EXCEPT !.waitFreeFifoEvent.queue = {}],
        woken |-> d.waitFreeFifoEvent.queue]
  ELSE [driver |-> [d EXCEPT !.waitFreeFifoEvent.value = TRUE],
        woken |-> {}]

\* ipcDriverAllocateRequest run by thread t from its pop loop until it
\* returns a request or sleeps on waitFreeFifoEvent:
\* [driver', buffers', blocked, request].
ipcDriverAllocateRequest(d, bufs, t, handle, command, async) ==
  LET pop == ipcDriverFifoPop(d.freeFifo)
  IN  IF pop.error = IOSError.QEmpty
      THEN \* a set event is consumed by OSWaitEvent and the pop is retried
           LET fails == IF d.waitFreeFifoEvent.value THEN 2 ELSE 1
           IN  [driver |->
                  [d EXCEPT !.failedAllocateRequestBlock = @ + fails,
                            !.waitingFreeFifo = TRUE,
                            !.waitFreeFifoEvent =
                               [value |-> FALSE, queue |-> @.queue \cup {t}]],
                buffers |-> bufs, blocked |-> TRUE, request |-> nullptr]
      ELSE LET request == pop.request
               buffer == d.requests[request].ipcBuffer
           IN  [driver |->
                  [d EXCEPT !.freeFifo = pop.fifo,
                            !.requests[request].allocated = TRUE,
                            !.requests[request].asyncCallback = async],
                buffers |->
                  [bufs EXCEPT ![buffer] = StampBuffer(@, command, handle)],
                blocked |-> FALSE, request |-> request]

\* Thread t's record after an allocation attempt.
AfterAllocate(th, res, handle, command, async) ==
  [th EXCEPT !.pc = IF res.blocked THEN "allocWait" ELSE "allocated",
             !.request = res.request, !.handle = handle,
             !.command = command, !.async = async]

\* Requests some thread is between starting to allocate and submitting.
PendingAllocations ==
  Cardinality({t \in Threads :
                 threads[t].pc \in {"allocWait", "allocWoken", "allocated"}})


\* OSSignalEvent(&request->finishEvent) on an auto-reset event:
\* [event', woken threads] (one sleeping thread is woken, or the event is
\* left set).
SignalFinishEvent(ev) ==
  IF ev.value
  THEN [event |-> ev, woken |-> {}]
  ELSE IF ev.queue # {}
  THEN LET t == CHOOSE x \in ev.queue : \A y \in ev.queue : x <= y
       IN  [event |-> [ev EXCEPT !.queue = @ \ {t}], woken |-> {t}]
  ELSE [event |-> [ev EXCEPT !.value = TRUE], woken |-> {}]

\* What the read of requests[IPCBufferCount].ipcBuffer, one past the end of
\* the array, can make of the check request->ipcBuffer == buffer.
OutOfBoundsOutcomes == {"CheckFails", "CheckPasses"}

\* One iteration of ipcDriverProcessResponses' loop, for responses[i], on
\* st = [driver, woken, callbacks, aborted].  outOfBounds is the outcome of
\* the check on a request one past the end of the array; when it passes,
\* that request is signalled or called back and freed, which
\* outOfBoundsRequestUsed records, and the run is not followed further.
ProcessResponse(st, bufs, i, outOfBounds) ==
  LET d == st.driver
      buffer == d.responses[i]
      index == buffer
  IN  IF ~(index >= 0 /\ index <= IPCBufferCount)
      THEN [st EXCEPT !.aborted = TRUE]
      ELSE IF index \notin Requests
      THEN \* &driver->requests[IPCBufferCount]: one past the array
           IF outOfBounds = "CheckFails"
           THEN [st EXCEPT !.aborted = TRUE]
           ELSE [st EXCEPT !.driver.outOfBoundsRequestUsed = TRUE,
                           !.aborted = TRUE]
      ELSE IF d.requests[index].ipcBuffer # buffer
      THEN [st EXCEPT !.aborted = TRUE]
      ELSE IF ~d.requests[index].asyncCallback
      THEN LET sig == SignalFinishEvent(d.requests[index].finishEvent)
           IN  [st EXCEPT
                  !.driver = [d EXCEPT !.requests[index].finishEvent = sig.event,
                                       !.requestsProcessed = @ + 1],
                  !.woken = @ \cup sig.woken]
      ELSE LET free == ipcDriverFreeRequest(d, index)
           IN  [st EXCEPT
                  !.driver = [free.driver EXCEPT !.requestsProcessed = @ + 1],
                  !.callbacks = Append(@, [request |-> index,
                                           reply |-> bufs[buffer].reply])]

\* ipcDriverProcessResponses' loop over responses[0 .. n-1].
RECURSIVE ProcessResponsesLoop(_, _, _, _)
ProcessResponsesLoop(st, bufs, n, outOfBounds) ==
  IF n = 0 THEN st
  ELSE LET before == ProcessResponsesLoop(st, bufs, n - 1, outOfBounds)
       IN  IF before.aborted THEN before
           ELSE ProcessResponse(before, bufs, n, outOfBounds)

\* ipcDriverProcessResponses: [driver', woken, callbacks, aborted].
ipcDriverProcessResponses(d, bufs, outOfBounds) ==
  LET st == ProcessResponsesLoop(
              [driver |-> d, woken |-> {}, callbacks |-> <<>>,
               aborted |-> FALSE],
              bufs, Len(d.responses), outOfBounds)
  IN  IF st.aborted THEN st
      ELSE [st EXCEPT !.driver.responses = <<>>]

(***************************************************************************)
(* Actions of the driver specification.                                    *)
(***************************************************************************)

\* A call of IPCDriverInit / IPCDriverOpen / IPCDriverClose, as ipcCall
\* records it: frame says that the call left both FIFOs as they were.
IpcCallRecord(op, error, frame) ==
  [op |-> op, error |-> error, statusBefore |-> driver.status,
   frame |-> frame]

\* ipcCall after a call that is none of those three.
NoLifecycleCall ==
  [op |-> "none", error |-> IOSError.OK,
   statusBefore |-> IPCDriverStatus.Uninit, frame |-> TRUE]

\* IPCDriverInit is called (at start-up, or again after IPCDriverClose).
IPCDriverInitCall ==
  /\ ~aborted
  /\ driver.status \in {IPCDriverStatus.Uninit, IPCDriverStatus.Closed}
  /\ driver' = IPCDriverInit(driver)
  /\ ipcCall' = IpcCallRecord("IPCDriverInit", IOSError.OK, FALSE)
  /\ UNCHANGED <<fsVars, ipcBuffers, threads, kernelQueue, fifoVars, iosVars>>

\* IPCDriverOpen is called.
IPCDriverOpenCall ==
  LET res == IPCDriverOpen(driver)
  IN  /\ ~aborted
      /\ driver' = res.driver
      /\ ipcCall' = IpcCallRecord("IPCDriverOpen", res.error,
                                  /\ res.driver.freeFifo = driver.freeFifo
                                  /\ res.driver.outboundFifo = driver.outboundFifo)
      /\ UNCHANGED <<fsVars, ipcBuffers, threads, kernelQueue, fifoVars, iosVars>>

\* IPCDriverClose is called on an opened driver.
IPCDriverCloseCall ==
  /\ ~aborted
  /\ driver.initialisedRequests
  /\ driver.status # IPCDriverStatus.Closed
  /\ driver' = IPCDriverClose(driver)
  /\ ipcCall' = IpcCallRecord("IPCDriverClose", IOSError.OK, FALSE)
  /\ UNCHANGED <<fsVars, ipcBuffers, threads, kernelQueue, fifoVars, iosVars>>

\* Thread t calls ipcDriverAllocateRequest(driver, &req, handle, command,
\* 0, async ? callback : nullptr, ctx).
AllocateRequestCall(t, handle, command, async) ==
  LET res == ipcDriverAllocateRequest(driver, ipcBuffers, t, handle,
                                      command, async)
  IN  /\ ~aborted
      /\ driver.initialisedRequests
      /\ threads[t].pc = "idle"
      /\ driver.requestsSubmitted + PendingAllocations < MaxSubmitted
      /\ driver' = res.driver
      /\ ipcBuffers' = res.buffers
      /\ threads' = [threads EXCEPT
                       ![t] = AfterAllocate(@, res, handle, command, async)]
      /\ ipcCall' = NoLifecycleCall
      /\ UNCHANGED <<fsVars, kernelQueue, fifoVars, iosVars>>

\* Thread t, woken from waitFreeFifoEvent, goes round the pop loop again.
AllocateRequestRetry(t) ==
  LET th == threads[t]
      res == ipcDriverAllocateRequest(driver, ipcBuffers, t, th.handle,
                                      th.command, th.async)
  IN  /\ ~aborted
      /\ th.pc = "allocWoken"
      /\ driver' = res.driver
      /\ ipcBuffers' = res.buffers
      /\ threads' = [threads EXCEPT
                       ![t] = AfterAllocate(@, res, th.handle, th.command,
                                            th.async)]
      /\ ipcCall' = NoLifecycleCall
      /\ UNCHANGED <<fsVars, kernelQueue, fifoVars, iosVars>>

\* ipcDriverSubmitRequest(driver, request): the driver it leaves behind.
ipcDriverSubmitRequest(d, request) ==
  [d EXCEPT !.requests[request].finishEvent = OSInitEvent,
            !.requestsSubmitted = @ + 1]

\* Thread t fills in its request (buffer1 names the device for an Open) and
\* calls ipcDriverSubmitRequest; an asynchronous caller then returns.
SubmitRequestCall(t, name) ==
  LET th == threads[t]
      buffer == driver.requests[th.request].ipcBuffer
  IN  /\ ~aborted
      /\ th.pc = "allocated"
      /\ driver' = ipcDriverSubmitRequest(driver, th.request)
      /\ ipcBuffers' = [ipcBuffers EXCEPT ![buffer].buffer1 = name]
      /\ kernelQueue' = Append(kernelQueue, buffer)
      /\ threads' = [threads EXCEPT
                       ![t] = IF th.async THEN IdleThread
                              ELSE [@ EXCEPT !.pc = "submitted"]]
      /\ ipcCall' = NoLifecycleCall
      /\ UNCHANGED <<fsVars, fifoVars, iosVars>>

\* The part of ipcDriverWaitResponse after OSWaitEvent returned:
\* [reply, error of the free, driver', woken].
WaitResponseFinish(d, bufs, request) ==
  LET free == ipcDriverFreeRequest(d, request)
      sig == SignalWaitFreeFifo(free.driver)
  IN  [reply |-> bufs[d.requests[request].ipcBuffer].reply,
       error |-> free.error, driver |-> sig.driver, woken |-> sig.woken]

\* threads with those of `woken` moved from pc `from` to pc `to`.
Wake(ths, woken, from, to) ==
  [x \in Threads |->
     IF x \in woken /\ ths[x].pc = from THEN [ths[x] EXCEPT !.pc = to]
     ELSE ths[x]]

\* Thread t calls ipcDriverWaitResponse: it returns at once when the
\* finish event is set, and sleeps on it otherwise.
WaitResponseCall(t) ==
  LET th == threads[t]
      ev == driver.requests[th.request].finishEvent
  IN  /\ ~aborted
      /\ th.pc = "submitted"
      /\ IF ev.value
         THEN LET fin == WaitResponseFinish(
                           [driver EXCEPT
                              !.requests[th.request].finishEvent.value = FALSE],
                           ipcBuffers, th.request)
              IN  /\ driver' = fin.driver
                  /\ threads' = Wake([threads EXCEPT ![t] = IdleThread],
                                     fin.woken, "allocWait", "allocWoken")
                  /\ ipcCall' = NoLifecycleCall
         ELSE /\ driver' = [driver EXCEPT
                              !.requests[th.request].finishEvent.queue =
                                 @ \cup {t}]
              /\ threads' = [threads EXCEPT ![t].pc = "respWait"]
              /\ ipcCall' = NoLifecycleCall
      /\ UNCHANGED <<fsVars, ipcBuffers, kernelQueue, fifoVars, iosVars>>

\* Thread t, woken from its request's finish event, finishes
\* ipcDriverWaitResponse.
WaitResponseWoken(t) ==
  LET th == threads[t]
      fin == WaitResponseFinish(driver, ipcBuffers, th.request)
  IN  /\ ~aborted
      /\ th.pc = "respWoken"
      /\ driver' = fin.driver
      /\ threads' = Wake([threads EXCEPT ![t] = IdleThread],
                         fin.woken, "allocWait", "allocWoken")
      /\ ipcCall' = NoLifecycleCall
      /\ UNCHANGED <<fsVars, ipcBuffers, kernelQueue, fifoVars, iosVars>>

\* The kernel takes the oldest submitted buffer, dispatches it and hands
\* it back to the driver as a response.
KernelDispatch(devRes) ==
  /\ ~aborted
  /\ kernelQueue # <<>>
  /\ LET buffer == Head(kernelQueue)
         r == iosDispatchIpcRequest(ipcBuffers[buffer], devRes,
                                    sOpenDeviceMap, DeviceHandles)
     IN  /\ devRes \in DeviceResultsFor(ipcBuffers[buffer])
         /\ sOpenDeviceMap' = r.map
         /\ DeviceHandles' = r.handles
         /\ aborted' = r.aborted
         /\ ipcBuffers' = [ipcBuffers EXCEPT ![buffer] = r.buffer]
         /\ kernelQueue' = Tail(kernelQueue)
         /\ driver' = IF r.aborted THEN driver
                      ELSE [driver EXCEPT !.responses = Append(@, buffer)]
  /\ ipcCall' = NoLifecycleCall
  /\ UNCHANGED <<fsVars, threads, fifoVars, iosCall, iosOpened, iosClosed,
                 dispatchCount>>

\* The core's IPC interrupt: ipcDriverProcessResponses runs.
ProcessResponsesCall(outOfBounds) ==
  /\ ~aborted
  /\ driver.responses # <<>>
  /\ LET res == ipcDriverProcessResponses(driver, ipcBuffers, outOfBounds)
     IN  /\ driver' = res.driver
         /\ threads' = Wake(threads, res.woken, "respWait", "respWoken")
         /\ aborted' = res.aborted
         /\ ipcCall' = NoLifecycleCall
  /\ UNCHANGED <<fsVars, ipcBuffers, kernelQueue, fifoVars, sOpenDeviceMap,
                 DeviceHandles, iosCall, iosOpened, iosClosed, dispatchCount>>

IpcNext ==
  \/ IPCDriverInitCall
  \/ IPCDriverOpenCall
  \/ IPCDriverCloseCall
  \/ \E t \in Threads, h \in IpcHandleInputs, c \in IpcCommandInputs,
        a \in BOOLEAN : AllocateRequestCall(t, h, c, a)
  \/ \E t \in Threads : AllocateRequestRetry(t)
  \/ \E t \in Threads, n \in IpcNameInputs : SubmitRequestCall(t, n)
  \/ \E t \in Threads : WaitResponseCall(t)
  \/ \E t \in Threads : WaitResponseWoken(t)
  \/ \E r \in DeviceResults : KernelDispatch(r)
  \/ \E o \in OutOfBoundsOutcomes : ProcessResponsesCall(o)

\* The driver opened once: IPCDriverInit, one IPCDriverOpen, and the
\* threads, the kernel and the response interrupt from then on.
IpcOpenedOnceNext ==
  \/ IPCDriverInitCall
  \/ ~driver.initialisedRequests /\ IPCDriverOpenCall
  \/ \E t \in Threads, h \in IpcHandleInputs, c \in IpcCommandInputs,
        a \in BOOLEAN : AllocateRequestCall(t, h, c, a)
  \/ \E t \in Threads : AllocateRequestRetry(t)
  \/ \E t \in Threads, n \in IpcNameInputs : SubmitRequestCall(t, n)
  \/ \E t \in Threads : WaitResponseCall(t)
  \/ \E t \in Threads : WaitResponseWoken(t)
  \/ \E r \in DeviceResults : KernelDispatch(r)
  \/ \E o \in OutOfBoundsOutcomes : ProcessResponsesCall(o)

\* What the scheduling guarantees: a thread that can run goes on with its
\* call, the kernel dispatches what was submitted, and the response
\* interrupt is taken.
IpcFairness ==
  /\ \A t \in Threads :
       /\ WF_vars(AllocateRequestRetry(t))
       /\ WF_vars(\E n \in IpcNameInputs : SubmitRequestCall(t, n))
       /\ WF_vars(WaitResponseCall(t))
       /\ WF_vars(WaitResponseWoken(t))
  /\ WF_vars(\E r \in DeviceResults : KernelDispatch(r))
  /\ WF_vars(\E o \in OutOfBoundsOutcomes : ProcessResponsesCall(o))

\* Buffers that are not among the driver's ipcBuffers, by the index the
\* pointer difference gives them: before the array, one past its last
\* buffer, and beyond that.
ForeignBuffers == {-1, IPCBufferCount, IPCBufferCount + 1}

\* The kernel hands the driver a response whose buffer is not one of the
\* driver's, when the driver has no other response waiting.
KernelForeignResponse(buffer) ==
  /\ ~aborted
  /\ driver.initialisedRequests
  /\ driver.responses = <<>>
  /\ driver' = [driver EXCEPT !.responses = Append(@, buffer)]
  /\ ipcCall' = NoLifecycleCall
  /\ UNCHANGED <<fsVars, ipcBuffers, threads, kernelQueue, fifoVars, iosVars>>

\* The driver with a kernel that can hand it foreign buffers.
IpcForeignNext ==
  \/ IpcNext
  \/ \E b \in ForeignBuffers : KernelForeignResponse(b)

(***************************************************************************)
(* Actions of the FIFO specification.                                      *)
(***************************************************************************)

\* A call of ipcDriverFifoInit.
FifoInitCall ==
  /\ fifo' = ipcDriverFifoInit
  /\ fifoShadow' = <<>>
  /\ fifoCall' = [op |-> "init", error |-> IOSError.OK,
                  before |-> fifo, request |-> nullptr]
  /\ UNCHANGED <<fsVars, iosVars, ipcVars>>

\* A call of ipcDriverFifoPush(fifo, r).
FifoPushCall(r) ==
  LET res == ipcDriverFifoPush(fifo, r)
  IN  /\ fifo' = res.fifo
      /\ fifoShadow' = IF res.error = IOSError.OK
                       THEN Append(fifoShadow, r) ELSE fifoShadow
      /\ fifoCall' = [op |-> "push", error |-> res.error,
                      before |-> fifo, request |-> r]
      /\ UNCHANGED <<fsVars, iosVars, ipcVars>>

\* A call of ipcDriverFifoPop(fifo, &out).
FifoPopCall ==
  LET res == ipcDriverFifoPop(fifo)
  IN  /\ fifo' = res.fifo
      /\ fifoShadow' = IF res.error = IOSError.OK /\ fifoShadow # <<>>
                       THEN Tail(fifoShadow) ELSE fifoShadow
      /\ fifoCall' = [op |-> "pop", error |-> res.error,
                      before |-> fifo, request |-> res.request]
      /\ UNCHANGED <<fsVars, iosVars, ipcVars>>

FifoNext ==
  \/ FifoInitCall
  \/ \E r \in Requests : FifoPushCall(r)
  \/ FifoPopCall

(***************************************************************************)
(* Actions of the dispatcher specification: requests reach                 *)
(* iosDispatchIpcRequest one at a time, in one reused IPCBuffer.           *)
(***************************************************************************)

\* The handles a request may name.
HandleInputs == -1 .. MaxDispatch

\* The request (command, handle, buffer1 = name) in the reused buffer.
RequestBuffer(command, handle, name) ==
  [StampBuffer(iosCall.buffer, command, handle) EXCEPT !.buffer1 = name]

\* IOS_Open(name, mode) reaches the dispatcher.
IosOpenRequest(name, devRes) ==
  /\ ~aborted
  /\ dispatchCount < MaxDispatch
  /\ devRes \in DeviceOpenResults
  /\ IosDispatch(RequestBuffer(IOSCommand.Open, -1, name), devRes)
  /\ UNCHANGED <<fsVars, fifoVars, ipcVars>>

\* IOS_Close(handle) reaches the dispatcher.
IosCloseRequest(handle, devRes) ==
  /\ ~aborted
  /\ dispatchCount < MaxDispatch
  /\ devRes \in DeviceCloseResults
  /\ IosDispatch(RequestBuffer(IOSCommand.Close, handle, ""), devRes)
  /\ UNCHANGED <<fsVars, fifoVars, ipcVars>>

\* IOS_Ioctl(handle, ...) reaches the dispatcher.
IosIoctlRequest(handle, devRes) ==
  /\ ~aborted
  /\ dispatchCount < MaxDispatch
  /\ devRes \in DeviceIoctlResults
  /\ IosDispatch(RequestBuffer(IOSCommand.Ioctl, handle, ""), devRes)
  /\ UNCHANGED <<fsVars, fifoVars, ipcVars>>

\* IOS_Ioctlv(handle, ...) reaches the dispatcher.
IosIoctlvRequest(handle, devRes) ==
  /\ ~aborted
  /\ dispatchCount < MaxDispatch
  /\ devRes \in DeviceIoctlResults
  /\ IosDispatch(RequestBuffer(IOSCommand.Ioctlv, handle, ""), devRes)
  /\ UNCHANGED <<fsVars, fifoVars, ipcVars>>

\* A request with a command tag the dispatcher does not implement.
IosUnimplementedRequest(command) ==
  /\ ~aborted
  /\ dispatchCount < MaxDispatch
  /\ IosDispatch(RequestBuffer(command, -1, ""), IOSError.OK)
  /\ UNCHANGED <<fsVars, fifoVars, ipcVars>>

IosNext ==
  \/ \E n \in DeviceNames, r \in DeviceResults : IosOpenRequest(n, r)
  \/ \E h \in HandleInputs, r \in DeviceResults : IosCloseRequest(h, r)
  \/ \E h \in HandleInputs, r \in DeviceResults : IosIoctlRequest(h, r)
  \/ \E h \in HandleInputs, r \in DeviceResults : IosIoctlvRequest(h, r)
  \/ \E c \in {IOSCommand.Read, IOSCommand.Write, IOSCommand.Seek} :
        IosUnimplementedRequest(c)

(***************************************************************************)
(* FS command blocks (coreinit_fs_cmdblock.cpp), one FS client.            *)
(***************************************************************************)

Blocks == 1 .. NumBlocks

\* FSCmdBlockStatus.
FSCmdBlockStatus ==
  [Initialised |-> "Initialised", QueuedCommand |-> "QueuedCommand",
   InProgress |-> "InProgress", Cancelled |-> "Cancelled"]

\* FSVolumeState, the states of the client's volume state machine.
FSVolumeState ==
  [Initial |-> "Initial", Ready |-> "Ready", WrongMedia |-> "WrongMedia",
   MediaError |-> "MediaError", Fatal |-> "Fatal"]

\* FSStatus, the status the user sees.
FSStatus ==
  [OK |-> 0, Cancelled |-> -1, End |-> -2, Max |-> -3, AlreadyOpen |-> -4,
   Exists |-> -5, NotFound |-> -6, NotFile |-> -7, NotDirectory |-> -8,
   AccessError |-> -9, PermissionError |-> -10, FileTooBig |-> -11,
   StorageFull |-> -12, JournalFull |-> -13, UnsupportedCmd |-> -14,
   MediaNotReady |-> -15, MediaError |-> -17, Corrupted |-> -18,
   FatalError |-> -1024]

\* FSAStatus, the status the FSA device replies with.
FSAStatus ==
  [OK |-> 0, NotInit |-> -196609, Busy |-> -196610, Cancelled |-> -196611,
   EndOfDir |-> -196612, EndOfFile |-> -196613, MaxMountpoints |-> -196624,
   MaxVolumes |-> -196625, MaxClients |-> -196626, MaxFiles |-> -196627,
   MaxDirs |-> -196628, AlreadyOpen |-> -196629, AlreadyExists |-> -196630,
   NotFound |-> -196631, NotEmpty |-> -196632, AccessError |-> -196633,
   PermissionError |-> -196634, DataCorrupted |-> -196635,
   StorageFull |-> -196636, JournalFull |-> -196637, LinkEntry |-> -196638,
   UnavailableCmd |-> -196639, UnsupportedCmd |-> -196640,
   InvalidParam |-> -196641, InvalidPath |-> -196642,
   InvalidBuffer |-> -196643, InvalidAlignment |-> -196644,
   InvalidClientHandle |-> -196645, InvalidFileHandle |-> -196646,
   InvalidDirHandle |-> -196647, NotFile |-> -196648, NotDir |-> -196649,
   FileTooBig |-> -196650, OutOfRange |-> -196651,
   OutOfResources |-> -196652, MediaNotReady |-> -196672,
   InvalidMedia |-> -196673, MediaError |-> -196674,
   WriteProtected |-> -196675]

\* FSErrorFlag: a flag word is the set of its bits; "Other" stands for the
\* bits of FSErrorFlag::All that no single flag names.
FSErrorFlag ==
  [None |-> {}, Max |-> {"Max"}, AlreadyOpen |-> {"AlreadyOpen"},
   Exists |-> {"Exists"}, NotFound |-> {"NotFound"}, NotFile |-> {"NotFile"},
   NotDir |-> {"NotDir"}, AccessError |-> {"AccessError"},
   PermissionError |-> {"PermissionError"}, FileTooBig |-> {"FileTooBig"},
   StorageFull |-> {"StorageFull"}, UnsupportedCmd |-> {"UnsupportedCmd"},
   JournalFull |-> {"JournalFull"},
   All |-> {"Max", "AlreadyOpen", "Exists", "NotFound", "NotFile", "NotDir",
            "AccessError", "PermissionError", "FileTooBig", "StorageFull",
            "UnsupportedCmd", "JournalFull", "Other"}]

\* The finish functions a block's finishCmdFn can point to.
fsCmdBlockFinishCmdFn == "fsCmdBlockFinishCmd"
fsCmdBlockFinishReadCmdFn == "fsCmdBlockFinishReadCmd"

\* The FSACommands for which fsCmdBlockFinishCmd sets a result; for every
\* other command (GetInfoByQuery, unknown commands) it aborts.
FinishableCommands ==
  {"Mount", "Unmount", "ChangeDir", "MakeDir", "Remove", "Rename",
   "RewindDir", "CloseDir", "ReadFile", "WriteFile", "SetPosFile", "IsEof",
   "CloseFile", "GetError", "FlushFile", "AppendFile", "TruncateFile",
   "MakeQuota", "FlushQuota", "RollbackQuota", "ChangeMode",
   "RegisterFlushQuota", "FlushMultiQuota", "RemoveQuota", "MakeLink",
   "GetVolumeInfo", "OpenDir", "ReadDir", "OpenFile", "OpenFileByStat",
   "GetPosFile", "StatFile", "GetFileBlockAddress", "GetCwd"}

\* uint32_t and int32_t conversions, on words of WordRange values.
ToUint32(n) == n % WordRange
ToInt32(n) == IF 2 * (n % WordRange) >= WordRange
              THEN (n % WordRange) - WordRange ELSE n % WordRange

\* At most this many commands of a client's queue are with the FSA device.
maxActiveCmds == 1

\* FSInitCmdBlock: the block zeroed, status Initialised, priority 16.
FSInitCmdBlock ==
  [status |-> FSCmdBlockStatus.Initialised, priority |-> 16,
   errorMask |-> FSErrorFlag.None, cancelling |-> FALSE,
   finishCmdFn |-> "nullptr", fsaStatus |-> 0, command |-> "Invalid",
   readFile |-> [bytesRead |-> 0, bytesRemaining |-> 0, readSize |-> 0,
                 chunkSize |-> 0],
   asyncResult |-> [status |-> 0, ioMsgQueue |-> "nullptr"]]

\* A step a thread still has to run: one lock-delimited section of
\* fsCmdBlockReplyResult, fsCmdBlockRequeue, a finish function or
\* fsCmdQueueProcessCmd.
Frame(op, block, status, insertAtFront, finishCmdFn) ==
  [op |-> op, block |-> block, status |-> status,
   insertAtFront |-> insertAtFront, finishCmdFn |-> finishCmdFn]

ReplyResultFrame(b, status) == Frame("ReplyResult", b, status, FALSE, "nullptr")
FinishFrame(b, status) == Frame("Finish", b, status, FALSE, "nullptr")
RequeueFrame(b, front, fn) == Frame("Requeue", b, 0, front, fn)
ProcessCmdFrame == Frame("ProcessCmd", 0, 0, FALSE, "nullptr")

\* fsClientRegistered.
fsClientRegistered(s) == s.client.registered

\* fsmSetState / fsmEnterState: the volume state machine moves to a state.
fsmSetState(s, state) == [s EXCEPT !.client.fsm = state]

\* fsCmdQueueFinishCmd: the command that was with the device is finished.
fsCmdQueueFinishCmd(s) ==
  [s EXCEPT !.client.cmdQueue.activeCmds = IF @ > 0 THEN @ - 1 ELSE 0]

\* fsCmdQueuePushFront.
fsCmdQueuePushFront(s, b) ==
  [s EXCEPT !.client.cmdQueue.queue = <<b>> \o @]

\* fsCmdQueueEnqueue: behind every queued command whose priority value is
\* not larger (sorted), or at the back.
fsCmdQueueEnqueue(s, b, sortByPriority) ==
  LET q == s.client.cmdQueue.queue
      ahead == IF sortByPriority
               THEN {i \in 1 .. Len(q) :
                       s.blocks[q[i]].priority <= s.blocks[b].priority}
               ELSE 1 .. Len(q)
      n == IF ahead = {} THEN 0
           ELSE CHOOSE i \in ahead : \A j \in ahead : j <= i
  IN  [s EXCEPT !.client.cmdQueue.queue =
         SubSeq(q, 1, n) \o <<b>> \o SubSeq(q, n + 1, Len(q))]

\* fsCmdQueueProcessCmd: when fewer than maxActiveCmds commands are with the
\* device, dequeue the front command and submit it through the FSA shim.
fsCmdQueueProcessCmd(s) ==
  LET q == s.client.cmdQueue
  IN  IF q.queue = <<>> \/ q.activeCmds >= maxActiveCmds THEN s
      ELSE LET b == Head(q.queue)
           IN  [s EXCEPT !.client.cmdQueue.queue = Tail(@),
                         !.client.cmdQueue.activeCmds = @ + 1,
                         !.client.lastDequeuedCommand = b,
                         !.blocks[b].status = FSCmdBlockStatus.InProgress,
                         !.inFlight = @ \cup {b}]

\* OSSendMessage(queue, msg, None): FALSE when the queue is full.
OSSendMessage(s, queue, msg) ==
  IF Len(s.msgQueues[queue]) >= MsgQueueCap
  THEN [ok |-> FALSE, fs |-> s]
  ELSE [ok |-> TRUE, fs |-> [s EXCEPT !.msgQueues[queue] = Append(@, msg)]]

\* decaf_abort.
FsAbort(s) == [s EXCEPT !.aborted = TRUE]

\* fsCmdBlockSetResult: store the status in the block's asyncResult and send
\* the result message to the block's ioMsgQueue; abort when it cannot be
\* sent.  posted counts the messages sent for the block's submission.
fsCmdBlockSetResult(s, b, status) ==
  LET s1 == [s EXCEPT !.blocks[b].asyncResult.status = status]
      sent == OSSendMessage(s1, s1.blocks[b].asyncResult.ioMsgQueue,
                            [block |-> b, status |-> status,
                             blockStatus |-> s1.blocks[b].status])
  IN  IF sent.ok THEN [sent.fs EXCEPT !.posted[b] = @ + 1]
      ELSE FsAbort(s1)

\* fsCmdBlockFinishCmd, changed: it leaves the block status as it was.
fsCmdBlockFinishCmd_KeepStatus(s, b, result) ==
  LET s1 == [s EXCEPT
               !.blocks[b].cancelling = FALSE,
               !.client.lastDequeuedCommand = IF @ = b THEN nullptr ELSE @,
               !.finished[b] = @ + 1]
  IN  IF result < 0 THEN fsCmdBlockSetResult(s1, b, result)
      ELSE IF s1.blocks[b].command \in FinishableCommands
           THEN fsCmdBlockSetResult(s1, b, result)
           ELSE FsAbort(s1)

\* fsCmdBlockFinishCmd: clear Cancelling, forget the block as the last
\* dequeued command, mark it Cancelled (reusable) and set the result.
fsCmdBlockFinishCmd(s, b, result) ==
  LET s1 == [s EXCEPT
               !.blocks[b].cancelling = FALSE,
               !.client.lastDequeuedCommand = IF @ = b THEN nullptr ELSE @,
               !.blocks[b].status = FSCmdBlockStatus.Cancelled,
               !.finished[b] = @ + 1]
  IN  IF result < 0 THEN fsCmdBlockSetResult(s1, b, result)
      ELSE IF s1.blocks[b].command \in FinishableCommands
           THEN fsCmdBlockSetResult(s1, b, result)
           ELSE FsAbort(s1)

\* fsCmdBlockFinishReadCmd, changed: the next chunk asks for all the bytes
\* that remain.
fsCmdBlockFinishReadCmd_NoCap(s, b, result) ==
  LET rs == s.blocks[b].readFile
      bytesRead == ToUint32(result)
      total == ToUint32(rs.bytesRead + bytesRead)
      remaining == ToUint32(rs.bytesRemaining - bytesRead)
      s1 == [s EXCEPT !.blocks[b].readFile.bytesRead = total,
                      !.blocks[b].readFile.bytesRemaining = remaining]
  IN  IF result < 0
      THEN [fs |-> fsCmdBlockFinishCmd(s, b, result), next |-> <<>>]
      ELSE IF remaining = 0 \/ bytesRead < rs.readSize
      THEN [fs |-> fsCmdBlockFinishCmd(s1, b, ToInt32(total \div rs.chunkSize)),
            next |-> <<>>]
      ELSE [fs |-> [s1 EXCEPT !.blocks[b].readFile.readSize = remaining],
            next |-> <<RequeueFrame(b, FALSE, fsCmdBlockFinishReadCmdFn)>>]

\* fsCmdBlockFinishReadCmd: account for the bytes of this chunk; finish the
\* command when the read is complete or short, else set up the next chunk
\* and requeue the block at the back of the queue.
fsCmdBlockFinishReadCmd(s, b, result) ==
  LET rs == s.blocks[b].readFile
      bytesRead == ToUint32(result)
      total == ToUint32(rs.bytesRead + bytesRead)
      remaining == ToUint32(rs.bytesRemaining - bytesRead)
      s1 == [s EXCEPT !.blocks[b].readFile.bytesRead = total,
                      !.blocks[b].readFile.bytesRemaining = remaining]
  IN  IF result < 0
      THEN [fs |-> fsCmdBlockFinishCmd(s, b, result), next |-> <<>>]
      ELSE IF remaining = 0 \/ bytesRead < rs.readSize
      THEN [fs |-> fsCmdBlockFinishCmd(s1, b, ToInt32(total \div rs.chunkSize)),
            next |-> <<>>]
      ELSE [fs |-> [s1 EXCEPT !.blocks[b].readFile.readSize =
                      IF remaining > FSMaxBytesPerRequest
                      THEN FSMaxBytesPerRequest ELSE remaining],
            next |-> <<RequeueFrame(b, FALSE, fsCmdBlockFinishReadCmdFn)>>]

\* blockBody->finishCmdFn(blockBody, status), when it is set.
CallFinishCmdFn(s, b, status) ==
  LET fn == s.blocks[b].finishCmdFn
  IN  IF fn = fsCmdBlockFinishCmdFn
      THEN [fs |-> fsCmdBlockFinishCmd(s, b, status), next |-> <<>>]
      ELSE IF fn = fsCmdBlockFinishReadCmdFn
      THEN fsCmdBlockFinishReadCmd(s, b, status)
      ELSE [fs |-> s, next |-> <<>>]

\* fsCmdBlockRequeue, changed: it always requeues at the back.
fsCmdBlockRequeue_AtBack(s, b, insertAtFront, finishCmdFn) ==
  IF s.blocks[b].cancelling
  THEN [fs |-> [s EXCEPT !.blocks[b].cancelling = FALSE,
                         !.blocks[b].status = FSCmdBlockStatus.Cancelled,
                         !.client.lastDequeuedCommand = nullptr],
        next |-> <<ReplyResultFrame(b, FSStatus.Cancelled)>>]
  ELSE LET s1 == fsCmdQueueFinishCmd(
                   [s EXCEPT !.blocks[b].finishCmdFn = finishCmdFn,
                             !.blocks[b].status =
                                FSCmdBlockStatus.QueuedCommand])
       IN  [fs |-> fsCmdQueueEnqueue(s1, b, TRUE),
            next |-> <<ProcessCmdFrame>>]

\* fsCmdBlockRequeue, changed: it does not look at the Cancelling flag.
fsCmdBlockRequeue_IgnoreCancelling(s, b, insertAtFront, finishCmdFn) ==
  LET s1 == fsCmdQueueFinishCmd(
              [s EXCEPT !.blocks[b].finishCmdFn = finishCmdFn,
                        !.blocks[b].status = FSCmdBlockStatus.QueuedCommand])
  IN  [fs |-> IF insertAtFront THEN fsCmdQueuePushFront(s1, b)
              ELSE fsCmdQueueEnqueue(s1, b, TRUE),
       next |-> <<ProcessCmdFrame>>]

\* fsCmdBlockRequeue, the part under the queue mutex: a block that is being
\* cancelled is replied to with Cancelled; any other block is marked queued,
\* the command that was with the device is finished and the block is put
\* back in the queue.  fsCmdQueueProcessCmd follows outside the mutex.
fsCmdBlockRequeue(s, b, insertAtFront, finishCmdFn) ==
  IF s.blocks[b].cancelling
  THEN [fs |-> [s EXCEPT !.blocks[b].cancelling = FALSE,
                         !.blocks[b].status = FSCmdBlockStatus.Cancelled,
                         !.client.lastDequeuedCommand = nullptr],
        next |-> <<ReplyResultFrame(b, FSStatus.Cancelled)>>]
  ELSE LET s1 == fsCmdQueueFinishCmd(
                   [s EXCEPT !.blocks[b].finishCmdFn = finishCmdFn,
                             !.blocks[b].status =
                                FSCmdBlockStatus.QueuedCommand])
       IN  [fs |-> IF insertAtFront THEN fsCmdQueuePushFront(s1, b)
                   ELSE fsCmdQueueEnqueue(s1, b, TRUE),
            next |-> <<ProcessCmdFrame>>]

\* fsCmdBlockReplyResult, the part under the queue mutex: the command that
\* was with the device is finished.  The finish function and
\* fsCmdQueueProcessCmd follow outside the mutex.
fsCmdBlockReplyResult(s, b, status) ==
  [fs |-> fsCmdQueueFinishCmd(s),
   next |-> <<FinishFrame(b, status), ProcessCmdFrame>>]

\* The translation, changed: NotDir shares the case of NotFile.
FsaTranslate_NotDirAsNotFile(fsaStatus) ==
  LET pass == [do |-> "reply", result |-> fsaStatus,
               errorFlags |-> FSErrorFlag.All]
      A == FSAStatus
  IN  CASE fsaStatus \in {A.NotInit, A.OutOfRange, A.OutOfResources,
                          A.LinkEntry, A.UnavailableCmd, A.InvalidParam,
                          A.InvalidPath, A.InvalidBuffer, A.InvalidAlignment,
                          A.InvalidClientHandle, A.InvalidFileHandle,
                          A.InvalidDirHandle} ->
             [pass EXCEPT !.errorFlags = FSErrorFlag.None]
        [] fsaStatus = A.Busy -> [pass EXCEPT !.do = "requeue"]
        [] fsaStatus = A.Cancelled ->
             [pass EXCEPT !.result = FSStatus.Cancelled]
        [] fsaStatus \in {A.EndOfDir, A.EndOfFile} ->
             [pass EXCEPT !.result = FSStatus.End]
        [] fsaStatus \in {A.MaxMountpoints, A.MaxVolumes, A.MaxClients,
                          A.MaxFiles, A.MaxDirs} ->
             [pass EXCEPT !.result = FSStatus.Max,
                          !.errorFlags = FSErrorFlag.Max]
        [] fsaStatus = A.AlreadyOpen ->
             [pass EXCEPT !.result = FSStatus.AlreadyOpen,
                          !.errorFlags = FSErrorFlag.AlreadyOpen]
        [] fsaStatus = A.NotFound ->
             [pass EXCEPT !.result = FSStatus.NotFound,
                          !.errorFlags = FSErrorFlag.NotFound]
        [] fsaStatus \in {A.AlreadyExists, A.NotEmpty} ->
             [pass EXCEPT !.result = FSStatus.Exists,
                          !.errorFlags = FSErrorFlag.Exists]
        [] fsaStatus = A.AccessError ->
             [pass EXCEPT !.result = FSStatus.AccessError,
                          !.errorFlags = FSErrorFlag.AccessError]
        [] fsaStatus = A.PermissionError ->
             [pass EXCEPT !.result = FSStatus.PermissionError,
                          !.errorFlags = FSErrorFlag.PermissionError]
        [] fsaStatus \in {A.DataCorrupted, A.MediaError} ->
             [pass EXCEPT !.do = "abort"]
        [] fsaStatus = A.StorageFull ->
             [pass EXCEPT !.result = FSStatus.StorageFull,
                          !.errorFlags = FSErrorFlag.StorageFull]
        [] fsaStatus = A.JournalFull ->
             [pass EXCEPT !.result = FSStatus.JournalFull,
                          !.errorFlags = FSErrorFlag.JournalFull]
        [] fsaStatus = A.UnsupportedCmd ->
             [pass EXCEPT !.result = FSStatus.UnsupportedCmd,
                          !.errorFlags = FSErrorFlag.UnsupportedCmd]
        [] fsaStatus \in {A.NotFile, A.NotDir} ->
             [pass EXCEPT !.result = FSStatus.NotFile,
                          !.errorFlags = FSErrorFlag.NotFile]
        [] fsaStatus = A.FileTooBig ->
             [pass EXCEPT !.result = FSStatus.FileTooBig,
                          !.errorFlags = FSErrorFlag.FileTooBig]
        [] fsaStatus = A.InvalidMedia ->
             [pass EXCEPT !.do = "return", !.errorFlags = FSErrorFlag.None]
        [] OTHER -> pass

\* The translation of a negative FSAStatus in fsCmdBlockHandleResult: what
\* the switch does, the FSStatus for the user and the error flags.
FsaTranslate(fsaStatus) ==
  LET pass == [do |-> "reply", result |-> fsaStatus,
               errorFlags |-> FSErrorFlag.All]
      A == FSAStatus
  IN  CASE fsaStatus \in {A.NotInit, A.OutOfRange, A.OutOfResources,
                          A.LinkEntry, A.UnavailableCmd, A.InvalidParam,
                          A.InvalidPath, A.InvalidBuffer, A.InvalidAlignment,
                          A.InvalidClientHandle, A.InvalidFileHandle,
                          A.InvalidDirHandle} ->
             [pass EXCEPT !.errorFlags = FSErrorFlag.None]
        [] fsaStatus = A.Busy -> [pass EXCEPT !.do = "requeue"]
        [] fsaStatus = A.Cancelled ->
             [pass EXCEPT !.result = FSStatus.Cancelled]
        [] fsaStatus \in {A.EndOfDir, A.EndOfFile} ->
             [pass EXCEPT !.result = FSStatus.End]
        [] fsaStatus \in {A.MaxMountpoints, A.MaxVolumes, A.MaxClients,
                          A.MaxFiles, A.MaxDirs} ->
             [pass EXCEPT !.result = FSStatus.Max,
                          !.errorFlags = FSErrorFlag.Max]
        [] fsaStatus = A.AlreadyOpen ->
             [pass EXCEPT !.result = FSStatus.AlreadyOpen,
                          !.errorFlags = FSErrorFlag.AlreadyOpen]
        [] fsaStatus = A.NotFound ->
             [pass EXCEPT !.result = FSStatus.NotFound,
                          !.errorFlags = FSErrorFlag.NotFound]
        [] fsaStatus \in {A.AlreadyExists, A.NotEmpty} ->
             [pass EXCEPT !.result = FSStatus.Exists,
                          !.errorFlags = FSErrorFlag.Exists]
        [] fsaStatus = A.AccessError ->
             [pass EXCEPT !.result = FSStatus.AccessError,
                          !.errorFlags = FSErrorFlag.AccessError]
        [] fsaStatus = A.PermissionError ->
             [pass EXCEPT !.result = FSStatus.PermissionError,
                          !.errorFlags = FSErrorFlag.PermissionError]
        [] fsaStatus \in {A.DataCorrupted, A.MediaError} ->
             [pass EXCEPT !.do = "abort"]
        [] fsaStatus = A.StorageFull ->
             [pass EXCEPT !.result = FSStatus.StorageFull,
                          !.errorFlags = FSErrorFlag.StorageFull]
        [] fsaStatus = A.JournalFull ->
             [pass EXCEPT !.result = FSStatus.JournalFull,
                          !.errorFlags = FSErrorFlag.JournalFull]
        [] fsaStatus = A.UnsupportedCmd ->
             [pass EXCEPT !.result = FSStatus.UnsupportedCmd,
                          !.errorFlags = FSErrorFlag.UnsupportedCmd]
        [] fsaStatus = A.NotFile ->
             [pass EXCEPT !.result = FSStatus.NotFile,
                          !.errorFlags = FSErrorFlag.NotFile]
        [] fsaStatus = A.NotDir ->
             [pass EXCEPT !.result = FSStatus.NotDirectory,
                          !.errorFlags = FSErrorFlag.NotDir]
        [] fsaStatus = A.FileTooBig ->
             [pass EXCEPT !.result = FSStatus.FileTooBig,
                          !.errorFlags = FSErrorFlag.FileTooBig]
        [] fsaStatus = A.InvalidMedia ->
             [pass EXCEPT !.do = "return", !.errorFlags = FSErrorFlag.None]
        [] OTHER -> pass

\* fsCmdBlockHandleResult, changed: it replies whatever the error mask.
fsCmdBlockHandleResult_NoMaskTest(s, b) ==
  LET fsaStatus == s.blocks[b].fsaStatus
      t == FsaTranslate(fsaStatus)
      s1 == [s EXCEPT !.client.lastError = fsaStatus]
      reply(result) ==
        [fs |-> [s1 EXCEPT !.client.lastDequeuedCommand =
                   IF @ = b THEN nullptr ELSE @],
         next |-> <<ReplyResultFrame(b, result)>>]
  IN  IF ~fsClientRegistered(s)
      THEN [fs |-> s, next |-> <<FinishFrame(b, FSStatus.Cancelled)>>]
      ELSE IF fsaStatus = FSAStatus.MediaNotReady
      THEN [fs |-> fsmSetState(s1, FSVolumeState.WrongMedia), next |-> <<>>]
      ELSE IF fsaStatus = FSAStatus.WriteProtected
      THEN [fs |-> fsmSetState(s1, FSVolumeState.MediaError), next |-> <<>>]
      ELSE IF fsaStatus >= 0 THEN reply(fsaStatus)
      ELSE IF t.do = "requeue"
      THEN [fs |-> s1,
            next |-> <<RequeueFrame(b, TRUE, s1.blocks[b].finishCmdFn)>>]
      ELSE IF t.do = "abort" THEN [fs |-> FsAbort(s1), next |-> <<>>]
      ELSE IF t.do = "return" THEN [fs |-> s1, next |-> <<>>]
      ELSE reply(t.result)

\* fsCmdBlockHandleResult, changed: MediaNotReady and WriteProtected are
\* not told apart from the other negative statuses.
fsCmdBlockHandleResult_NoMediaStates(s, b) ==
  LET fsaStatus == s.blocks[b].fsaStatus
      t == FsaTranslate(fsaStatus)
      s1 == [s EXCEPT !.client.lastError = fsaStatus]
      reply(result) ==
        [fs |-> [s1 EXCEPT !.client.lastDequeuedCommand =
                   IF @ = b THEN nullptr ELSE @],
         next |-> <<ReplyResultFrame(b, result)>>]
  IN  IF ~fsClientRegistered(s)
      THEN [fs |-> s, next |-> <<FinishFrame(b, FSStatus.Cancelled)>>]
      ELSE IF fsaStatus >= 0 THEN reply(fsaStatus)
      ELSE IF t.do = "requeue"
      THEN [fs |-> s1,
            next |-> <<RequeueFrame(b, TRUE, s1.blocks[b].finishCmdFn)>>]
      ELSE IF t.do = "abort" THEN [fs |-> FsAbort(s1), next |-> <<>>]
      ELSE IF t.do = "return" THEN [fs |-> s1, next |-> <<>>]
      ELSE IF s1.blocks[b].errorMask \cap t.errorFlags # {}
      THEN [fs |-> fsmSetState(s1, FSVolumeState.Fatal), next |-> <<>>]
      ELSE reply(t.result)

\* fsCmdBlockHandleResult, changed: InvalidMedia breaks out of the switch
\* like the statuses around it instead of returning.
fsCmdBlockHandleResult_InvalidMediaBreaks(s, b) ==
  LET fsaStatus == s.blocks[b].fsaStatus
      t == FsaTranslate(fsaStatus)
      s1 == [s EXCEPT !.client.lastError = fsaStatus]
      reply(result) ==
        [fs |-> [s1 EXCEPT !.client.lastDequeuedCommand =
                   IF @ = b THEN nullptr ELSE @],
         next |-> <<ReplyResultFrame(b, result)>>]
  IN  IF ~fsClientRegistered(s)
      THEN [fs |-> s, next |-> <<FinishFrame(b, FSStatus.Cancelled)>>]
      ELSE IF fsaStatus = FSAStatus.MediaNotReady
      THEN [fs |-> fsmSetState(s1, FSVolumeState.WrongMedia), next |-> <<>>]
      ELSE IF fsaStatus = FSAStatus.WriteProtected
      THEN [fs |-> fsmSetState(s1, FSVolumeState.MediaError), next |-> <<>>]
      ELSE IF fsaStatus >= 0 THEN reply(fsaStatus)
      ELSE IF t.do = "requeue"
      THEN [fs |-> s1,
            next |-> <<RequeueFrame(b, TRUE, s1.blocks[b].finishCmdFn)>>]
      ELSE IF t.do = "abort" THEN [fs |-> FsAbort(s1), next |-> <<>>]
      ELSE IF s1.blocks[b].errorMask \cap t.errorFlags # {}
      THEN [fs |-> fsmSetState(s1, FSVolumeState.Fatal), next |-> <<>>]
      ELSE reply(t.result)

\* fsCmdBlockHandleResult up to the call it ends in: a finish function (the
\* client is gone), fsCmdBlockRequeue (Busy) or fsCmdBlockReplyResult; or to
\* its return when the volume state machine takes over or the reply is
\* dropped.
fsCmdBlockHandleResult(s, b) ==
  LET fsaStatus == s.blocks[b].fsaStatus
      t == FsaTranslate(fsaStatus)
      s1 == [s EXCEPT !.client.lastError = fsaStatus]
      reply(result) ==
        [fs |-> [s1 EXCEPT !.client.lastDequeuedCommand =
                   IF @ = b THEN nullptr ELSE @],
         next |-> <<ReplyResultFrame(b, result)>>]
  IN  IF ~fsClientRegistered(s)
      THEN [fs |-> s, next |-> <<FinishFrame(b, FSStatus.Cancelled)>>]
      ELSE IF fsaStatus = FSAStatus.MediaNotReady
      THEN [fs |-> fsmSetState(s1, FSVolumeState.WrongMedia), next |-> <<>>]
      ELSE IF fsaStatus = FSAStatus.WriteProtected
      THEN [fs |-> fsmSetState(s1, FSVolumeState.MediaError), next |-> <<>>]
      ELSE IF fsaStatus >= 0 THEN reply(fsaStatus)
      ELSE IF t.do = "requeue"
      THEN [fs |-> s1,
            next |-> <<RequeueFrame(b, TRUE, s1.blocks[b].finishCmdFn)>>]
      ELSE IF t.do = "abort" THEN [fs |-> FsAbort(s1), next |-> <<>>]
      ELSE IF t.do = "return" THEN [fs |-> s1, next |-> <<>>]
      ELSE IF s1.blocks[b].errorMask \cap t.errorFlags # {}
      THEN [fs |-> fsmSetState(s1, FSVolumeState.Fatal), next |-> <<>>]
      ELSE reply(t.result)

\* One step of a thread: the section the frame names.
FsStep(s, f) ==
  CASE f.op = "ReplyResult" -> fsCmdBlockReplyResult(s, f.block, f.status)
    [] f.op = "Finish" -> CallFinishCmdFn(s, f.block, f.status)
    [] f.op = "Requeue" ->
         fsCmdBlockRequeue(s, f.block, f.insertAtFront, f.finishCmdFn)
    [] f.op = "ProcessCmd" ->
         [fs |-> fsCmdQueueProcessCmd(s), next |-> <<>>]

\* fsAsyncResultInit: results go to the user's ioMsgQueue, or to the AppIO
\* queue when the user gave a callback.
fsAsyncResultInit(s, b, asyncData) ==
  [result |-> FSStatus.OK,
   fs |-> [s EXCEPT !.blocks[b].asyncResult.ioMsgQueue =
             IF asyncData.userCallback THEN "appio" ELSE "user"]]

\* fsCmdBlockPrepareAsync, changed: the error mask is stored before the
\* checks.
fsCmdBlockPrepareAsync_StampFirst(s, b, errorMask, asyncData) ==
  LET s1 == [s EXCEPT !.blocks[b].errorMask = errorMask]
  IN  IF /\ s.blocks[b].status # FSCmdBlockStatus.Initialised
         /\ s.blocks[b].status # FSCmdBlockStatus.Cancelled
      THEN [result |-> FSStatus.FatalError, fs |-> s1]
      ELSE IF asyncData.userCallback /\ asyncData.ioMsgQueue
      THEN [result |-> FSStatus.FatalError, fs |-> s1]
      ELSE fsAsyncResultInit(s1, b, asyncData)

\* fsCmdBlockPrepareAsync: only a block that is Initialised or Cancelled is
\* accepted, and userCallback and ioMsgQueue exclude each other.
fsCmdBlockPrepareAsync(s, b, errorMask, asyncData) ==
  IF /\ s.blocks[b].status # FSCmdBlockStatus.Initialised
     /\ s.blocks[b].status # FSCmdBlockStatus.Cancelled
  THEN [result |-> FSStatus.FatalError, fs |-> s]
  ELSE IF asyncData.userCallback /\ asyncData.ioMsgQueue
  THEN [result |-> FSStatus.FatalError, fs |-> s]
  ELSE fsAsyncResultInit([s EXCEPT !.blocks[b].errorMask = errorMask],
                         b, asyncData)

\* fsaShimPrepareRequest...: the command of the block's shim buffer; a read
\* of count elements of size bytes starts with its first chunk.
PrepareRequest(s, b, command, size, count) ==
  LET bytes == IF command = "ReadFile" THEN size * count ELSE 0
  IN  [s EXCEPT !.blocks[b].command = command,
                !.blocks[b].readFile =
                   [bytesRead |-> 0, bytesRemaining |-> bytes,
                    readSize |-> IF bytes > FSMaxBytesPerRequest
                                 THEN FSMaxBytesPerRequest ELSE bytes,
                    chunkSize |-> IF command = "ReadFile" THEN size ELSE 0]]

\* fsClientSubmitCommand, the part under the queue mutex: the block is
\* queued behind the commands already waiting.  fsCmdQueueProcessCmd
\* follows outside the mutex.
fsClientSubmitCommand(s, b, finishCmdFn) ==
  fsCmdQueueEnqueue(
    [s EXCEPT !.blocks[b].finishCmdFn = finishCmdFn,
              !.blocks[b].status = FSCmdBlockStatus.QueuedCommand],
    b, FALSE)

\* What the user passes to an FS...Async call.
ErrorMaskInputs == {FSErrorFlag.None, FSErrorFlag.All}
\* (results are asked for on the user's ioMsgQueue; giving a callback as
\* well is the call the prepare refuses)
AsyncDataInputs ==
  {[userCallback |-> FALSE, ioMsgQueue |-> TRUE],
   [userCallback |-> TRUE, ioMsgQueue |-> TRUE]}
CommandInputs == {"OpenFile", "ReadFile"}
ReadSizeInputs == {1}

\* What the FSA device replies to a command: an error, or 0, or for a read
\* the number of bytes it read.
FsaErrorInputs ==
  {FSAStatus.Busy, FSAStatus.NotFound, FSAStatus.MediaNotReady,
   FSAStatus.InvalidMedia, FSAStatus.DataCorrupted}
FsaReplyInputs(blk) ==
  FsaErrorInputs \cup
    (IF blk.command = "ReadFile" THEN 0 .. blk.readFile.readSize ELSE {0})

NoFsCall ==
  [op |-> "none", block |-> 0, result |-> 0, statusBefore |-> "none",
   asyncData |-> [userCallback |-> FALSE, ioMsgQueue |-> FALSE]]

\* FSAddClient has run and the blocks are initialised.
FsVarsInit ==
  /\ fs = [blocks |-> [b \in Blocks |-> FSInitCmdBlock],
           client |-> [registered |-> TRUE, lastDequeuedCommand |-> nullptr,
                       lastError |-> 0, fsm |-> FSVolumeState.Ready,
                       cmdQueue |-> [queue |-> <<>>, activeCmds |-> 0]],
           inFlight |-> {},
           msgQueues |-> [q \in {"user", "appio"} |-> <<>>],
           aborted |-> FALSE,
           posted |-> [b \in Blocks |-> 0],
           finished |-> [b \in Blocks |-> 0],
           outstanding |-> [b \in Blocks |-> FALSE],
           replies |-> [b \in Blocks |-> 0],
           requested |-> [b \in Blocks |-> 0],
           submits |-> 0]
  /\ appIo = <<>>
  /\ fsUser = <<>>
  /\ fsCall = NoFsCall

(***************************************************************************)
(* Actions of the FS specification: one user thread and the AppIO thread,  *)
(* interleaved wherever the code holds no mutex.                           *)
(***************************************************************************)

\* The user initialises a block it has no command outstanding for.
FSInitCmdBlockCall(b) ==
  /\ ~fs.aborted /\ fsUser = <<>>
  /\ ~fs.outstanding[b]
  /\ fs' = [fs EXCEPT !.blocks[b] = FSInitCmdBlock]
  /\ fsCall' = NoFsCall
  /\ UNCHANGED <<appIo, fsUser, fifoVars, iosVars, ipcVars>>

\* An FS...Async call: prepare the block, fill in the request and submit
\* it.  The user reuses a block only once it has the block's result; a call
\* on a block that is still queued or in progress is refused by the prepare.
\* requested is the number of bytes a read asks for in all.
FSAsyncCall(b, errorMask, asyncData, command, size, count) ==
  /\ ~fs.aborted /\ fsUser = <<>>
  /\ fsClientRegistered(fs)
  /\ fs.submits < MaxFsSubmits
  /\ \/ ~fs.outstanding[b]
     \/ fs.blocks[b].status \in {FSCmdBlockStatus.QueuedCommand,
                                 FSCmdBlockStatus.InProgress}
  /\ LET p == fsCmdBlockPrepareAsync(fs, b, errorMask, asyncData)
         s1 == PrepareRequest(p.fs, b, command, size, count)
         s2 == fsClientSubmitCommand(s1, b,
                 IF command = "ReadFile" THEN fsCmdBlockFinishReadCmdFn
                 ELSE fsCmdBlockFinishCmdFn)
     IN  /\ fsCall' = [op |-> "FSAsync", block |-> b, result |-> p.result,
                       statusBefore |-> fs.blocks[b].status,
                       asyncData |-> asyncData]
         /\ IF p.result # FSStatus.OK
            THEN fs' = p.fs /\ fsUser' = <<>>
            ELSE /\ fs' = [s2 EXCEPT !.posted[b] = 0, !.finished[b] = 0,
                                     !.replies[b] = 0,
                                     !.requested[b] =
                                        s2.blocks[b].readFile.bytesRemaining,
                                     !.outstanding[b] = TRUE,
                                     !.submits = @ + 1]
                 /\ fsUser' = <<ProcessCmdFrame>>
  /\ UNCHANGED <<appIo, fifoVars, iosVars, ipcVars>>

\* The user thread runs the next section of its call.
FsUserStep ==
  /\ ~fs.aborted /\ fsUser # <<>>
  /\ LET r == FsStep(fs, Head(fsUser))
     IN  fs' = r.fs /\ fsUser' = r.next \o Tail(fsUser)
  /\ fsCall' = NoFsCall
  /\ UNCHANGED <<appIo, fifoVars, iosVars, ipcVars>>

\* FSCancelCommand: the user asks for a queued or running command to be
\* cancelled.
FSCancelCommandCall(b) ==
  /\ ~fs.aborted /\ fsUser = <<>>
  /\ fs.blocks[b].status \in {FSCmdBlockStatus.QueuedCommand,
                              FSCmdBlockStatus.InProgress}
  /\ ~fs.blocks[b].cancelling
  /\ fs' = [fs EXCEPT !.blocks[b].cancelling = TRUE]
  /\ fsCall' = NoFsCall
  /\ UNCHANGED <<appIo, fsUser, fifoVars, iosVars, ipcVars>>

\* The user takes a result message from a queue (for the AppIO queue: the
\* user's callback has run).
ReceiveResult(q) ==
  /\ ~fs.aborted
  /\ fs.msgQueues[q] # <<>>
  /\ fs' = [fs EXCEPT !.msgQueues[q] = Tail(@),
                      !.outstanding[Head(fs.msgQueues[q]).block] = FALSE]
  /\ fsCall' = NoFsCall
  /\ UNCHANGED <<appIo, fsUser, fifoVars, iosVars, ipcVars>>

\* FSDelClient: the client is no longer registered.
FSDelClientCall ==
  /\ ~fs.aborted /\ fsUser = <<>>
  /\ fsClientRegistered(fs)
  /\ fs' = [fs EXCEPT !.client.registered = FALSE]
  /\ fsCall' = NoFsCall
  /\ UNCHANGED <<appIo, fsUser, fifoVars, iosVars, ipcVars>>

\* The FSA device replies to a command it holds and the AppIO thread, free
\* of earlier replies, starts fsCmdBlockHandleResult for it.  replies
\* counts the non-negative replies to the block's submission.
FsaReplyStep(b, fsaStatus) ==
  /\ ~fs.aborted /\ appIo = <<>>
  /\ b \in fs.inFlight
  /\ LET r == fsCmdBlockHandleResult(
                [fs EXCEPT !.inFlight = @ \ {b},
                           !.blocks[b].fsaStatus = fsaStatus,
                           !.replies[b] = IF fsaStatus >= 0 THEN @ + 1 ELSE @],
                b)
     IN  fs' = r.fs /\ appIo' = r.next
  /\ fsCall' = NoFsCall
  /\ UNCHANGED <<fsUser, fifoVars, iosVars, ipcVars>>

FsaReply(b, fsaStatus) ==
  /\ fsaStatus \in FsaReplyInputs(fs.blocks[b])
  /\ FsaReplyStep(b, fsaStatus)

\* The AppIO thread runs the next section of the reply it is handling.
AppIoStep ==
  /\ ~fs.aborted /\ appIo # <<>>
  /\ LET r == FsStep(fs, Head(appIo))
     IN  fs' = r.fs /\ appIo' = r.next \o Tail(appIo)
  /\ fsCall' = NoFsCall
  /\ UNCHANGED <<fsUser, fifoVars, iosVars, ipcVars>>

FsNext ==
  \/ \E b \in Blocks : FSInitCmdBlockCall(b)
  \/ \E b \in Blocks, m \in ErrorMaskInputs, a \in AsyncDataInputs,
        c \in CommandInputs, sz \in ReadSizeInputs, n \in 1 .. MaxReadCount :
        FSAsyncCall(b, m, a, c, sz, n)
  \/ FsUserStep
  \/ \E b \in Blocks : FSCancelCommandCall(b)
  \/ \E q \in {"user", "appio"} : ReceiveResult(q)
  \/ FSDelClientCall
  \/ \E b \in Blocks, st \in FsaErrorInputs \cup (0 .. FSMaxBytesPerRequest) :
        FsaReply(b, st)
  \/ AppIoStep

(***************************************************************************)
(* Actions of the reply-table specification: one command of one block,     *)
(* every FSA status of the translation table, more error masks and read    *)
(* sizes.                                                                  *)
(***************************************************************************)

\* Every FSAStatus, and a negative status the switch does not list.
FsaTableInputs ==
  {FSAStatus[k] : k \in DOMAIN FSAStatus} \cup {FSAStatus.WriteProtected - 1}

\* Error masks: nothing, everything, one flag, everything but one flag.
ErrorMaskTableInputs ==
  {FSErrorFlag.None, FSErrorFlag.All, FSErrorFlag.NotFound,
   FSErrorFlag.All \ FSErrorFlag.StorageFull}

\* Element sizes of a read.
ReadSizeTableInputs == {1, 2, 3}

\* The FSA device replies with any status of the table, or for a read with
\* a number of bytes up to the number asked for.
FsaReplyAny(b, fsaStatus) ==
  /\ fsaStatus \in FsaTableInputs \cup FsaReplyInputs(fs.blocks[b])
  /\ FsaReplyStep(b, fsaStatus)

FsTableNext ==
  \/ \E b \in {1}, m \in ErrorMaskTableInputs, a \in AsyncDataInputs,
        c \in CommandInputs, sz \in ReadSizeTableInputs,
        n \in 1 .. MaxReadCount :
        fs.submits = 0 /\ FSAsyncCall(b, m, a, c, sz, n)
  \/ FsUserStep
  \/ \E b \in {1} : FSCancelCommandCall(b)
  \/ \E q \in {"user"} : ReceiveResult(q)
  \/ FSDelClientCall
  \/ \E b \in {1}, st \in FsaTableInputs \cup (0 .. FSMaxBytesPerRequest) :
        FsaReplyAny(b, st)
  \/ AppIoStep

(***************************************************************************)
(* Actions of the over-read specification: one read, to a device that can  *)
(* report one byte more than it was asked for.                             *)
(***************************************************************************)

\* The replies to a block's submission that the over-read specification
\* follows.
MaxRoundTrips == 6

\* The FSA device replies to a read with a status of FsaErrorInputs or with
\* a number of bytes up to one more than the number asked for.
FsaReplyOverRead(b, fsaStatus) ==
  /\ fs.replies[b] < MaxRoundTrips
  /\ fsaStatus \in FsaErrorInputs \cup (0 .. (fs.blocks[b].readFile.readSize + 1))
  /\ FsaReplyStep(b, fsaStatus)

FsOverReadNext ==
  \/ \E b \in {1}, m \in ErrorMaskInputs, a \in AsyncDataInputs,
        sz \in ReadSizeTableInputs, n \in 1 .. MaxReadCount :
        fs.submits = 0 /\ FSAsyncCall(b, m, a, "ReadFile", sz, n)
  \/ FsUserStep
  \/ \E b \in {1} : FSCancelCommandCall(b)
  \/ \E q \in {"user"} : ReceiveResult(q)
  \/ FSDelClientCall
  \/ \E b \in {1},
        st \in FsaErrorInputs \cup (0 .. (FSMaxBytesPerRequest + 1)) :
        FsaReplyOverRead(b, st)
  \/ AppIoStep

Init == FifoVarsInit /\ IosVarsInit /\ IpcVarsInit /\ FsVarsInit

\* The FIFO alone.
SpecFifo == Init /\ [][FifoNext]_vars

\* The IPC driver of one core with the kernel dispatcher behind it.
SpecIpc == Init /\ [][IpcNext]_vars

\* The kernel dispatcher alone.
SpecIos == Init /\ [][IosNext]_vars

\* The FS client's command pipeline.
SpecFs == Init /\ [][FsNext]_vars

\* One command block of the FS client against the whole reply table.
SpecFsTable == Init /\ [][FsTableNext]_vars
SpecIpcForeign == Init /\ [][IpcForeignNext]_vars
SpecFsOverRead == Init /\ [][FsOverReadNext]_vars
SpecIpcLive == Init /\ [][IpcOpenedOnceNext]_vars /\ IpcFairness


(***************************************************************************)
(* Claims.                                                                 *)
(***************************************************************************)

\* C1: once the driver has been opened, every request is either stored in
\* free_fifo exactly once with allocated = false, or absent from free_fifo
\* with allocated = true.
C1_RequestFreeXorAllocated ==
  driver.initialisedRequests =>
    \A r \in Requests :
      \/ /\ FifoOccurrences(driver.freeFifo, r) = 1
         /\ ~driver.requests[r].allocated
      \/ /\ FifoOccurrences(driver.freeFifo, r) = 0
         /\ driver.requests[r].allocated

\* C2: a push on a FIFO holding N elements returns QFull and a pop on a
\* FIFO holding none returns QEmpty, both leaving every field and slot as
\* it was; every other push and pop returns OK.
C2_BoundaryCallsDoNotMutate ==
  /\ fifoCall.op = "push" =>
       IF fifoCall.before.count = IPCBufferCount
       THEN fifoCall.error = IOSError.QFull /\ fifo = fifoCall.before
       ELSE fifoCall.error = IOSError.OK
  /\ fifoCall.op = "pop" =>
       IF fifoCall.before.count = 0
       THEN fifoCall.error = IOSError.QEmpty /\ fifo = fifoCall.before
       ELSE fifoCall.error = IOSError.OK

\* C2 witness: a push was refused on a full FIFO whose indices had wrapped.
C2_Witness ==
  /\ fifoCall.op = "push"
  /\ fifoCall.error = IOSError.QFull
  /\ fifoCall.before.count = IPCBufferCount
  /\ fifo.pushIndex # 0

\* C3: count is in 0..N, popIndex is -1 exactly when count is 0, pushIndex
\* is in 0..N-1, pushIndex = popIndex exactly when count is N, maxCount is
\* at least count and no push or pop lowers it.
C3_FifoIndexInvariant ==
  /\ fifo.count \in 0 .. IPCBufferCount
  /\ (fifo.popIndex = -1) <=> (fifo.count = 0)
  /\ fifo.popIndex \in -1 .. (IPCBufferCount - 1)
  /\ fifo.pushIndex \in 0 .. (IPCBufferCount - 1)
  /\ (fifo.pushIndex = fifo.popIndex) <=> (fifo.count = IPCBufferCount)
  /\ fifo.maxCount >= fifo.count
  /\ fifoCall.op \in {"push", "pop"} =>
       fifo.maxCount >= fifoCall.before.maxCount

\* C3 witness: the FIFO is full after its indices have wrapped, and a pop
\* has emptied it before.
C3_Witness ==
  /\ fifo.count = IPCBufferCount
  /\ fifo.pushIndex = fifo.popIndex
  /\ fifo.pushIndex # 0
  /\ fifoCall.op = "push"
  /\ fifoCall.error = IOSError.OK

\* C4: IPCDriverOpen on a Closed or Initialised driver returns OK and
\* leaves status = Open, all N requests in free_fifo and outbound_fifo
\* empty; on any other status it returns NotReady and leaves both FIFOs as
\* they were (so an open that follows an open is refused).
C4_OpenSetsStatusOpen ==
  ipcCall.op = "IPCDriverOpen" =>
    IF ipcCall.statusBefore \in {IPCDriverStatus.Closed,
                                 IPCDriverStatus.Initialised}
    THEN /\ ipcCall.error = IOSError.OK
         /\ driver.status = IPCDriverStatus.Open
         /\ driver.freeFifo.count = IPCBufferCount
         /\ \A r \in Requests : FifoOccurrences(driver.freeFifo, r) = 1
         /\ driver.outboundFifo.count = 0
    ELSE /\ ipcCall.error = IOSError.NotReady
         /\ ipcCall.frame

\* C5: the handles successful Opens have returned are positive, start at
\* 1 and are strictly increasing, so none is returned twice, closed or not.
C5_HandlesStrictlyIncreasing ==
  /\ \A k \in 1 .. Len(iosOpened) : iosOpened[k] > 0
  /\ Len(iosOpened) >= 1 => iosOpened[1] = 1
  /\ \A j, k \in 1 .. Len(iosOpened) : j < k => iosOpened[j] < iosOpened[k]

\* C5 witness: an Open succeeded after an earlier handle had been closed.
C5_Witness ==
  /\ iosCall.request.command = IOSCommand.Open
  /\ iosCall.buffer.reply > 0
  /\ iosClosed # {}
  /\ Len(iosOpened) >= 3

\* C6: Close(h) on an open handle replies with the device's close status
\* and removes h from the open-handle table; a closed handle never comes
\* back into the table, and Ioctl, Ioctlv and Close on it reply
\* InvalidHandle.
C6_CloseRemovesHandle ==
  /\ ( /\ iosCall.request.command = IOSCommand.Close
       /\ iosCall.request.handle \in DOMAIN iosCall.mapBefore )
     => /\ iosCall.request.handle \notin DOMAIN sOpenDeviceMap
        /\ iosCall.buffer.reply = iosCall.devRes
  /\ \A h \in iosClosed : h \notin DOMAIN sOpenDeviceMap
  /\ ( /\ iosCall.request.command \in {IOSCommand.Close, IOSCommand.Ioctl,
                                        IOSCommand.Ioctlv}
       /\ iosCall.request.handle \in iosClosed
       /\ iosCall.request.handle \notin DOMAIN iosCall.mapBefore )
     => iosCall.buffer.reply = IOSError.InvalidHandle

\* C6 witness: an Ioctl on a handle closed earlier was answered, while
\* another handle is still open.
C6_Witness ==
  /\ iosCall.request.command = IOSCommand.Ioctl
  /\ iosCall.request.handle \in iosClosed
  /\ iosCall.request.handle \notin DOMAIN iosCall.mapBefore
  /\ iosCall.buffer.reply = IOSError.InvalidHandle
  /\ sOpenDeviceMap # <<>>

\* C7: an Open that fails replies a negative error (NoExists for an
\* unregistered name, the device's error when its open fails) and leaves
\* the handle table and the handle counter as they were: the k-th
\* successful Open returns k whatever failed in between.
C7_FailedOpenChangesNothing ==
  /\ ( /\ iosCall.request.command = IOSCommand.Open
       /\ ( \/ iosCall.request.buffer1 \notin sDeviceMap
            \/ iosCall.devRes # IOSError.OK ) )
     => /\ iosCall.buffer.reply < 0
        /\ iosCall.request.buffer1 \notin sDeviceMap
             => iosCall.buffer.reply = IOSError.NoExists
        /\ iosCall.request.buffer1 \in sDeviceMap
             => iosCall.buffer.reply = iosCall.devRes
        /\ sOpenDeviceMap = iosCall.mapBefore
        /\ DeviceHandles = iosCall.handlesBefore
  /\ \A k \in 1 .. Len(iosOpened) : iosOpened[k] = k

\* C7 witness: the device refused an Open while another handle was open,
\* and the table and the counter are as they were.
C7_Witness ==
  /\ iosCall.request.command = IOSCommand.Open
  /\ iosCall.request.buffer1 \in sDeviceMap
  /\ iosCall.devRes = IOSError.NotReady
  /\ iosCall.buffer.reply = IOSError.NotReady
  /\ DOMAIN sOpenDeviceMap = {1}
  /\ DeviceHandles = 2

\* The dispatcher's half of C8, which holds under SpecIos: the buffer
\* iosDispatchIpcRequest returns for an Open, Close, Ioctl or Ioctlv request
\* has command = Reply, prevCommand = the request's command, prevHandle =
\* the request's handle and reply = the status computed for the request.
DispatchStampsReply ==
  ( /\ iosCall.op = "dispatch"
    /\ iosCall.request.command \in DispatchableCommands )
  => /\ iosCall.buffer.command = IOSCommand.Reply
     /\ iosCall.buffer.prevCommand = iosCall.request.command
     /\ iosCall.buffer.prevHandle = iosCall.request.handle
     /\ iosCall.buffer.handle = iosCall.request.handle
     /\ iosCall.buffer.reply =
          IF iosCall.request.command = IOSCommand.Open
          THEN IF iosCall.request.buffer1 \notin sDeviceMap
               THEN IOSError.NoExists
               ELSE IF iosCall.devRes # IOSError.OK THEN iosCall.devRes
               ELSE iosCall.handlesBefore
          ELSE IF iosCall.request.handle \notin DOMAIN iosCall.mapBefore
               THEN IOSError.InvalidHandle
               ELSE iosCall.devRes

\* C8: every buffer the kernel has dispatched and the driver's response
\* path is about to see (it waits in driver->responses) has command = Reply,
\* prevCommand and prevHandle echoing a request, and the reply of the
\* dispatcher.
C8_ResponsesCarryReply ==
  \A i \in 1 .. Len(driver.responses) :
    ipcBuffers[driver.responses[i]].command = IOSCommand.Reply

\* C9: at every instant at most one command block of the FS client is in
\* flight to the FSA device, whatever the interleaving of requeues, reply
\* handling (Busy requeue and chunked-read continuation included) and
\* fsCmdQueueProcessCmd.
C9_AtMostOneInFlight == Cardinality(fs.inFlight) <= 1

\* C10: for a submitted command block whose reply reached the finish
\* function, exactly one result message has been posted for the submission
\* (never more than one for any submission); the block's status was
\* Cancelled when the message was posted and the block stays acceptable to
\* a prepare, and a prepare of a Cancelled block with well-formed async data
\* is accepted.
C10_OneResultPerSubmission ==
  ~fs.aborted =>
    /\ \A b \in Blocks :
         /\ fs.posted[b] <= 1
         /\ fs.finished[b] >= 1 => fs.posted[b] = 1
         /\ (fs.posted[b] >= 1 /\ fs.outstanding[b]) =>
               fs.blocks[b].status = FSCmdBlockStatus.Cancelled
    /\ \A q \in DOMAIN fs.msgQueues : \A i \in 1 .. Len(fs.msgQueues[q]) :
         /\ fs.msgQueues[q][i].blockStatus = FSCmdBlockStatus.Cancelled
         /\ fs.blocks[fs.msgQueues[q][i].block].asyncResult.ioMsgQueue = q
    /\ (/\ fsCall.op = "FSAsync"
        /\ fsCall.statusBefore = FSCmdBlockStatus.Cancelled
        /\ ~(fsCall.asyncData.userCallback /\ fsCall.asyncData.ioMsgQueue))
          => fsCall.result = FSStatus.OK

\* C10 witness: a block whose result was posted and taken by the user has
\* been prepared and submitted again.
C10_Witness ==
  /\ fsCall.op = "FSAsync"
  /\ fsCall.statusBefore = FSCmdBlockStatus.Cancelled
  /\ fsCall.result = FSStatus.OK
  /\ fs.outstanding[fsCall.block]
  /\ fs.submits = 2

\* The step is the FSA device's reply st to block b.
ReplyTo(b, st) ==
  /\ appIo = <<>>
  /\ b \in fs.inFlight /\ b \notin fs'.inFlight
  /\ fs'.blocks[b].fsaStatus = st

\* The step is the AppIO thread running the frame at the head of its stack,
\* a frame op for block b.
AppIoRuns(op, b) ==
  /\ appIo # <<>> /\ appIo' # appIo
  /\ Head(appIo).op = op /\ Head(appIo).block = b

\* The status fsCmdBlockHandleResult delivers for the last reply to a block
\* when it delivers one.
Delivered(blk) ==
  IF blk.fsaStatus < 0 THEN FsaTranslate(blk.fsaStatus).result
  ELSE IF blk.finishCmdFn = fsCmdBlockFinishReadCmdFn
  THEN blk.readFile.bytesRead \div blk.readFile.chunkSize
  ELSE blk.fsaStatus

\* Every result waiting for the user is the only one of its submission and
\* carries either Cancelled or what the last, non-Busy reply translates to.
CompletionCarriesOutcome ==
  \A q \in DOMAIN fs.msgQueues : \A i \in 1 .. Len(fs.msgQueues[q]) :
    LET m == fs.msgQueues[q][i]
        blk == fs.blocks[m.block]
    IN  fs.outstanding[m.block] =>
          /\ fs.posted[m.block] = 1
          /\ \/ m.status = FSStatus.Cancelled
             \/ blk.fsaStatus # FSAStatus.Busy /\ m.status = Delivered(blk)

\* What the Busy reply to b does: nothing is delivered, and
\* fsCmdBlockRequeue is called for the front of the queue with the block's
\* own finish function.
BusyReplyCallsRequeue(b) ==
  (ReplyTo(b, FSAStatus.Busy) /\ fsClientRegistered(fs)) =>
    /\ fs'.posted = fs.posted /\ fs'.finished = fs.finished
    /\ fs'.client.cmdQueue = fs.client.cmdQueue
    /\ fs'.blocks[b].finishCmdFn = fs.blocks[b].finishCmdFn
    /\ appIo' = <<RequeueFrame(b, TRUE, fs.blocks[b].finishCmdFn)>>

\* What the requeue of a Busy reply (the only requeue that asks for the
\* front) does to the queue.
BusyRequeueAtFront(b) ==
  /\ fs'.client.cmdQueue.queue = <<b>> \o fs.client.cmdQueue.queue
  /\ fs'.blocks[b].finishCmdFn = fs.blocks[b].finishCmdFn
  /\ fs'.blocks[b].status = FSCmdBlockStatus.QueuedCommand
  /\ fs'.posted = fs.posted /\ fs'.finished = fs.finished

\* C11, as stated: a Busy reply for a registered client delivers nothing
\* and the block is requeued at the front of the queue with its finish
\* function unchanged; the completion the user sees is the only one and
\* carries the non-Busy outcome.
C11_BusyAlwaysRequeued ==
  /\ [][\A b \in Blocks :
          /\ BusyReplyCallsRequeue(b)
          /\ (AppIoRuns("Requeue", b) /\ Head(appIo).insertAtFront) =>
                BusyRequeueAtFront(b)]_vars
  /\ []CompletionCarriesOutcome

\* C11, amended: a Busy reply for a registered client delivers nothing and
\* calls the requeue for the front of the queue with the finish function
\* unchanged; the requeue puts the block at the front unless its Cancelling
\* flag is set, and then delivers Cancelled instead; a result the user sees
\* is the only one of its submission and carries Cancelled or the
\* translation of the last, non-Busy reply.
C11_BusyRequeuedUnlessCancelling ==
  /\ [][\A b \in Blocks :
          /\ BusyReplyCallsRequeue(b)
          /\ (AppIoRuns("Requeue", b) /\ Head(appIo).insertAtFront) =>
                IF fs.blocks[b].cancelling
                THEN /\ fs'.client.cmdQueue.queue = fs.client.cmdQueue.queue
                     /\ appIo' = <<ReplyResultFrame(b, FSStatus.Cancelled)>>
                ELSE BusyRequeueAtFront(b)]_vars
  /\ []CompletionCarriesOutcome

\* C11 witness: a block whose last reply was Busy has been put back in
\* front of another queued command.
C11_Witness ==
  /\ Len(fs.client.cmdQueue.queue) = 2
  /\ LET b == Head(fs.client.cmdQueue.queue)
     IN  /\ fs.blocks[b].fsaStatus = FSAStatus.Busy
         /\ fs.replies[b] = 0
         /\ fs.posted[b] = 0
  /\ appIo = <<ProcessCmdFrame>>

\* The step is the reply st to block b of a registered client, a negative
\* status the switch translates to an FSStatus and error flags.
TranslatedReply(b, st) ==
  /\ ReplyTo(b, st) /\ fsClientRegistered(fs)
  /\ st < 0 /\ st \notin {FSAStatus.MediaNotReady, FSAStatus.WriteProtected}
  /\ FsaTranslate(st).do = "reply"

\* The step delivers status to the user of block b: the finish function
\* runs once more and the result message joins the block's ioMsgQueue.
DeliversToUser(b, status) ==
  LET q == fs.blocks[b].asyncResult.ioMsgQueue
  IN  /\ fs'.finished[b] = fs.finished[b] + 1
      /\ fs'.posted[b] = fs.posted[b] + 1
      /\ Len(fs'.msgQueues[q]) = Len(fs.msgQueues[q]) + 1
      /\ fs'.msgQueues[q][Len(fs'.msgQueues[q])].block = b
      /\ fs'.msgQueues[q][Len(fs'.msgQueues[q])].status = status
      /\ fs'.blocks[b].asyncResult.status = status

\* The step delivers nothing to the user and runs nothing more.
NothingDelivered ==
  /\ fs'.posted = fs.posted /\ fs'.finished = fs.finished
  /\ fs'.msgQueues = fs.msgQueues
  /\ appIo' = <<>>

\* C12: a translated negative reply whose error flags meet the block's
\* error mask puts the volume state machine in Fatal and delivers nothing;
\* one whose flags miss the mask leaves the state machine alone and hands
\* the translated FSStatus to fsCmdBlockReplyResult, which hands it to the
\* finish function, which delivers it to the user.
C12_MaskDecidesFatalOrDelivery ==
  [][\A b \in Blocks :
       /\ \A st \in FsaTableInputs :
            TranslatedReply(b, st) =>
              IF fs.blocks[b].errorMask \cap FsaTranslate(st).errorFlags # {}
              THEN /\ fs'.client.fsm = FSVolumeState.Fatal
                   /\ NothingDelivered
              ELSE /\ fs'.client.fsm = fs.client.fsm
                   /\ fs'.posted = fs.posted
                   /\ appIo' = <<ReplyResultFrame(b, FsaTranslate(st).result)>>
       /\ AppIoRuns("ReplyResult", b) =>
            /\ fs'.client.fsm = fs.client.fsm
            /\ appIo' = <<FinishFrame(b, Head(appIo).status), ProcessCmdFrame>>
                          \o Tail(appIo)
       /\ (AppIoRuns("Finish", b) /\ Head(appIo).status < 0) =>
            /\ fs'.client.fsm = fs.client.fsm
            /\ DeliversToUser(b, Head(appIo).status)]_vars

\* C12 witness: NotFound was the reply to a block whose error mask is
\* NotFound; the state machine is in Fatal and the user has no result.
C12_Witness ==
  /\ fs.client.fsm = FSVolumeState.Fatal
  /\ \E b \in Blocks :
       /\ fs.blocks[b].fsaStatus = FSAStatus.NotFound
       /\ fs.blocks[b].errorMask = FSErrorFlag.NotFound
       /\ fs.outstanding[b] /\ fs.posted[b] = 0
       /\ b \notin fs.inFlight
  /\ appIo = <<>>

\* C13: for a registered client the reply MediaNotReady puts the volume
\* state machine in WrongMedia and the reply WriteProtected puts it in
\* MediaError, under every error mask; the finish function does not run
\* and nothing is posted to the user.
C13_MediaRepliesDriveStateMachine ==
  [][\A b \in Blocks :
       /\ (ReplyTo(b, FSAStatus.MediaNotReady) /\ fsClientRegistered(fs)) =>
            /\ fs'.client.fsm = FSVolumeState.WrongMedia
            /\ NothingDelivered
       /\ (ReplyTo(b, FSAStatus.WriteProtected) /\ fsClientRegistered(fs)) =>
            /\ fs'.client.fsm = FSVolumeState.MediaError
            /\ NothingDelivered]_vars

\* C13 witness: WriteProtected was the reply to a block with an empty error
\* mask; the state machine is in MediaError and the user has no result.
C13_Witness ==
  /\ fs.client.fsm = FSVolumeState.MediaError
  /\ \E b \in Blocks :
       /\ fs.blocks[b].fsaStatus = FSAStatus.WriteProtected
       /\ fs.blocks[b].errorMask = FSErrorFlag.None
       /\ fs.outstanding[b] /\ fs.posted[b] = 0 /\ fs.finished[b] = 0
       /\ b \notin fs.inFlight
  /\ appIo = <<>>

\* C14: for a registered client the reply InvalidMedia is swallowed under
\* every error mask: the step leaves no frame for the AppIO thread (no
\* finish function, no requeue), and of the FS state only the record of the
\* reply changes: the block has left the device, its fsaStatus and the
\* client's lastError are InvalidMedia.  The volume state, the queue, the
\* block's status and the user's message queues are as before.
C14_InvalidMediaSwallowed ==
  [][\A b \in Blocks :
       (ReplyTo(b, FSAStatus.InvalidMedia) /\ fsClientRegistered(fs)) =>
          /\ appIo' = <<>>
          /\ fs' = [fs EXCEPT !.inFlight = @ \ {b},
                              !.blocks[b].fsaStatus = FSAStatus.InvalidMedia,
                              !.client.lastError = FSAStatus.InvalidMedia]]_vars

\* C14 witness: InvalidMedia was the reply to a block whose error mask is
\* All; nothing was delivered, the queue is empty and the volume state is
\* still Ready.
C14_Witness ==
  /\ fs.client.fsm = FSVolumeState.Ready
  /\ fs.client.cmdQueue.queue = <<>>
  /\ \E b \in Blocks :
       /\ fs.blocks[b].fsaStatus = FSAStatus.InvalidMedia
       /\ fs.client.lastError = FSAStatus.InvalidMedia
       /\ fs.blocks[b].errorMask = FSErrorFlag.All
       /\ fs.outstanding[b] /\ fs.posted[b] = 0 /\ fs.finished[b] = 0
       /\ b \notin fs.inFlight
  /\ appIo = <<>>

\* The statuses of the translation table that are translated to an FSStatus
\* and error flags, by name.
TranslatedStatuses ==
  DOMAIN FSAStatus \ {"OK", "Busy", "InvalidMedia", "MediaNotReady",
                      "WriteProtected", "DataCorrupted", "MediaError"}

\* The row of the translation table for the status named k: the FSStatus
\* and the error flags.
TableRow(k) ==
  CASE k \in {"NotInit", "OutOfRange", "OutOfResources", "LinkEntry",
              "UnavailableCmd", "InvalidParam", "InvalidPath",
              "InvalidBuffer", "InvalidAlignment", "InvalidClientHandle",
              "InvalidFileHandle", "InvalidDirHandle"} ->
         [result |-> FSAStatus[k], errorFlags |-> FSErrorFlag.None]
    [] k = "Cancelled" ->
         [result |-> FSStatus.Cancelled, errorFlags |-> FSErrorFlag.All]
    [] k \in {"EndOfDir", "EndOfFile"} ->
         [result |-> FSStatus.End, errorFlags |-> FSErrorFlag.All]
    [] k \in {"MaxMountpoints", "MaxVolumes", "MaxClients", "MaxFiles",
              "MaxDirs"} ->
         [result |-> FSStatus.Max, errorFlags |-> FSErrorFlag.Max]
    [] k \in {"AlreadyExists", "NotEmpty"} ->
         [result |-> FSStatus.Exists, errorFlags |-> FSErrorFlag.Exists]
    [] k = "NotDir" ->
         [result |-> FSStatus.NotDirectory, errorFlags |-> FSErrorFlag.NotDir]
    [] OTHER -> [result |-> FSStatus[k], errorFlags |-> FSErrorFlag[k]]

\* C15: for every translated status of the table the switch computes the
\* FSStatus and error flags of the status's row, and the reply to a
\* registered client acts on that pair: nothing is handed on when the flags
\* meet the block's error mask, and the row's FSStatus is handed to
\* fsCmdBlockReplyResult when they do not (always, for the family whose
\* flags are None).
C15_TranslationTable ==
  /\ [](\A k \in TranslatedStatuses :
          /\ FsaTranslate(FSAStatus[k]).do = "reply"
          /\ FsaTranslate(FSAStatus[k]).result = TableRow(k).result
          /\ FsaTranslate(FSAStatus[k]).errorFlags = TableRow(k).errorFlags)
  /\ [][\A b \in Blocks : \A k \in TranslatedStatuses :
          (ReplyTo(b, FSAStatus[k]) /\ fsClientRegistered(fs)) =>
             IF fs.blocks[b].errorMask \cap TableRow(k).errorFlags # {}
             THEN appIo' = <<>>
             ELSE appIo' = <<ReplyResultFrame(b, TableRow(k).result)>>]_vars

\* C15 witness: NotDir was the reply to a block whose error mask is
\* NotFound, and the user has the result NotDirectory.
C15_Witness ==
  \E b \in Blocks :
    /\ fs.blocks[b].fsaStatus = FSAStatus.NotDir
    /\ fs.blocks[b].errorMask = FSErrorFlag.NotFound
    /\ fs.msgQueues["user"] =
         <<[block |-> b, status |-> FSStatus.NotDirectory,
            blockStatus |-> FSCmdBlockStatus.Cancelled]>>

\* The smaller of two numbers, and the quotient rounded up.
Min(m, n) == IF m < n THEN m ELSE n
CeilDiv(m, n) == (m + n - 1) \div n

\* C16: a read of T bytes in elements of C bytes goes to the device in
\* requests of min(M, bytes remaining) bytes, M = FSMaxBytesPerRequest.
\* While a request is with the device every earlier round trip returned M
\* bytes.  When the device returned every byte asked for, the result the
\* user gets is floor(T / C) after ceil(T / M) round trips; when a round
\* trip returned fewer bytes than asked for the read ended with it, and the
\* result is floor(bytes read / C).
C16_ChunkedReadArithmetic ==
  \A b \in Blocks :
    LET rs == fs.blocks[b].readFile
        T == fs.requested[b]
        C == rs.chunkSize
        M == FSMaxBytesPerRequest
        q == fs.msgQueues[fs.blocks[b].asyncResult.ioMsgQueue]
    IN  (fs.outstanding[b] /\ fs.blocks[b].command = "ReadFile") =>
          /\ rs.bytesRead + rs.bytesRemaining = T
          /\ b \in fs.inFlight =>
               /\ rs.readSize = Min(M, rs.bytesRemaining)
               /\ rs.bytesRead = M * fs.replies[b]
          /\ \A i \in 1 .. Len(q) :
               (q[i].block = b /\ q[i].status >= 0) =>
                  IF rs.bytesRemaining = 0
                  THEN /\ fs.replies[b] = CeilDiv(T, M)
                       /\ q[i].status = T \div C
                  ELSE /\ fs.replies[b] = (rs.bytesRead \div M) + 1
                       /\ q[i].status = rs.bytesRead \div C

\* C16 witness: a read of three elements of three bytes, every byte
\* returned, has its result after more than two round trips.
C16_Witness ==
  \E b \in Blocks :
    /\ fs.blocks[b].command = "ReadFile"
    /\ fs.outstanding[b]
    /\ fs.blocks[b].readFile.chunkSize = 3
    /\ fs.requested[b] = 3 * fs.blocks[b].readFile.chunkSize
    /\ fs.blocks[b].readFile.bytesRemaining = 0
    /\ fs.replies[b] > 2
    /\ fs.msgQueues["user"] # <<>>
    /\ Head(fs.msgQueues["user"]).status = 3

\* Block b is part way through a chunked read: bytes have been read, bytes
\* remain, and the block waits in the queue for its next chunk.
MidRead(b) ==
  /\ fs.outstanding[b] /\ fs.blocks[b].command = "ReadFile"
  /\ fs.blocks[b].finishCmdFn = fsCmdBlockFinishReadCmdFn
  /\ fs.blocks[b].status = FSCmdBlockStatus.QueuedCommand
  /\ fs.blocks[b].readFile.bytesRead > 0
  /\ fs.blocks[b].readFile.bytesRemaining > 0

\* C17: a requeue with the read finish function, of a block that is not
\* being cancelled, puts the block at the front of the client's queue; and
\* while a block waits for the next chunk of its read no other block of the
\* client goes to the device.
C17_ReadContinuesAtFront ==
  [][\A b \in Blocks :
       /\ ( /\ AppIoRuns("Requeue", b)
            /\ Head(appIo).finishCmdFn = fsCmdBlockFinishReadCmdFn
            /\ ~fs.blocks[b].cancelling ) =>
              fs'.client.cmdQueue.queue = <<b>> \o fs.client.cmdQueue.queue
       /\ MidRead(b) =>
            \A c \in Blocks \ {b} :
              c \notin fs.inFlight => c \notin fs'.inFlight]_vars

\* The reply st to block b is one fsCmdBlockHandleResult hands to
\* fsCmdBlockReplyResult, as the FSStatus natural.
NaturalReply(b, st, natural) ==
  \/ st >= 0 /\ natural = st
  \/ /\ st < 0
     /\ st \notin {FSAStatus.MediaNotReady, FSAStatus.WriteProtected}
     /\ FsaTranslate(st).do = "reply"
     /\ fs.blocks[b].errorMask \cap FsaTranslate(st).errorFlags = {}
     /\ natural = FsaTranslate(st).result

\* C18: when fsCmdBlockRequeue runs for a block whose Cancelling flag is
\* set, the block is not put in the queue and not submitted, the flag is
\* cleared, the status is Cancelled, lastDequeuedCommand is cleared, and
\* Cancelled goes down the reply path to the finish function and the user.
\* A cancel does not touch a command that is with the device, and a reply
\* to it that is not requeued is delivered as it would be without the
\* cancel.
C18_CancelAtRequeue ==
  [][\A b \in Blocks :
       /\ (AppIoRuns("Requeue", b) /\ fs.blocks[b].cancelling) =>
            /\ fs'.client.cmdQueue.queue = fs.client.cmdQueue.queue
            /\ fs'.inFlight = fs.inFlight
            /\ ~fs'.blocks[b].cancelling
            /\ fs'.blocks[b].status = FSCmdBlockStatus.Cancelled
            /\ fs'.client.lastDequeuedCommand = nullptr
            /\ appIo' = <<ReplyResultFrame(b, FSStatus.Cancelled)>>
                          \o Tail(appIo)
       /\ AppIoRuns("ReplyResult", b) =>
            /\ fs'.client.cmdQueue.queue = fs.client.cmdQueue.queue
            /\ fs'.inFlight = fs.inFlight
            /\ appIo' = <<FinishFrame(b, Head(appIo).status), ProcessCmdFrame>>
                          \o Tail(appIo)
       /\ (AppIoRuns("Finish", b) /\ Head(appIo).status = FSStatus.Cancelled) =>
            \/ fs'.aborted
            \/ DeliversToUser(b, FSStatus.Cancelled)
       /\ (b \in fs.inFlight /\ ~fs.blocks[b].cancelling
             /\ fs'.blocks[b].cancelling) =>
            /\ b \in fs'.inFlight
            /\ fs'.blocks[b].status = fs.blocks[b].status
            /\ appIo' = appIo
       /\ \A st \in FsaErrorInputs \cup (0 .. FSMaxBytesPerRequest) :
            (ReplyTo(b, st) /\ fsClientRegistered(fs)
               /\ fs.blocks[b].cancelling) =>
              \A natural \in {st, FsaTranslate(st).result} :
                NaturalReply(b, st, natural) =>
                  appIo' = <<ReplyResultFrame(b, natural)>>
       /\ (AppIoRuns("Finish", b) /\ fs.blocks[b].cancelling
             /\ fs.blocks[b].finishCmdFn = fsCmdBlockFinishCmdFn) =>
            \/ fs'.aborted
            \/ DeliversToUser(b, Head(appIo).status)]_vars

\* C18 witness: a registered client's block was being cancelled when its
\* Busy reply came to be requeued; the user has Cancelled for it and the
\* block is neither queued nor with the device.
C18_Witness ==
  /\ fsClientRegistered(fs)
  /\ \E b \in Blocks :
       /\ fs.blocks[b].fsaStatus = FSAStatus.Busy
       /\ fs.blocks[b].status = FSCmdBlockStatus.Cancelled
       /\ ~fs.blocks[b].cancelling
       /\ fs.posted[b] = 1 /\ fs.outstanding[b]
       /\ b \notin fs.inFlight
       /\ \A i \in 1 .. Len(fs.client.cmdQueue.queue) :
            fs.client.cmdQueue.queue[i] # b
       /\ fs.msgQueues["user"] =
            <<[block |-> b, status |-> FSStatus.Cancelled,
               blockStatus |-> FSCmdBlockStatus.Cancelled]>>

\* C19: an FS...Async call on a block whose status is neither Initialised
\* nor Cancelled, or with both a callback and a message queue in its
\* asyncData, returns FatalError and changes nothing: the block's error
\* mask and async result, the command queue and the rest of the FS state
\* are as before, and nothing is left for the user thread to run.
C19_PrepareRefusesAndLeavesBlock ==
  [][\A b \in Blocks :
       ( /\ fsCall'.op = "FSAsync" /\ fsCall'.block = b
         /\ \/ fs.blocks[b].status \notin {FSCmdBlockStatus.Initialised,
                                           FSCmdBlockStatus.Cancelled}
            \/ /\ fsCall'.asyncData.userCallback
               /\ fsCall'.asyncData.ioMsgQueue ) =>
          /\ fsCall'.result = FSStatus.FatalError
          /\ fs'.blocks[b].errorMask = fs.blocks[b].errorMask
          /\ fs'.blocks[b].asyncResult = fs.blocks[b].asyncResult
          /\ fs'.client.cmdQueue = fs.client.cmdQueue
          /\ fs' = fs
          /\ fsUser' = <<>>]_vars

\* C19 witness: a call with a message queue only, on a block that is with
\* the device, was refused.
C19_Witness ==
  /\ fsCall.op = "FSAsync"
  /\ fsCall.result = FSStatus.FatalError
  /\ fsCall.statusBefore = FSCmdBlockStatus.InProgress
  /\ ~fsCall.asyncData.userCallback
  /\ fsCall.block \in fs.inFlight
  /\ fs.blocks[fsCall.block].status = FSCmdBlockStatus.InProgress

\* C20: a request that is already free is not freed into free_fifo a
\* second time: no request is ever stored twice in free_fifo.
C20_NoRequestTwiceInFreeFifo ==
  \A r \in Requests : FifoOccurrences(driver.freeFifo, r) <= 1

\* C21: ipcDriverFreeRequest never finds free_fifo full:
\* failed_free_request_block stays 0, also when the driver is closed and
\* opened again while requests are outstanding.
C21_FreeNeverQFull ==
  driver.failedFreeRequestBlock = 0

\* C22: a response whose buffer is not one of the driver's N buffers is
\* rejected by the checks of ipcDriverProcessResponses: no request outside
\* requests[0 .. N-1] is ever signalled, called back or freed.
C22_ForeignResponsesRejected ==
  ~driver.outOfBoundsRequestUsed

\* The bookkeeping of block b's read of T bytes: the bytes read and the
\* bytes remaining add up to T, neither has wrapped, a request asks for at
\* most FSMaxBytesPerRequest bytes, and the replies that returned bytes are
\* at most ceil(T / FSMaxBytesPerRequest).
ReadBookkeeping(b) ==
  LET rs == fs.blocks[b].readFile
      T == fs.requested[b]
  IN  /\ rs.bytesRead + rs.bytesRemaining = T
      /\ rs.bytesRead <= T /\ rs.bytesRemaining <= T
      /\ rs.readSize <= FSMaxBytesPerRequest
      /\ rs.readSize <= rs.bytesRemaining \/ fs.finished[b] > 0
      /\ fs.replies[b] <= CeilDiv(T, FSMaxBytesPerRequest)

\* C23: during a chunked read of T bytes, whatever number of bytes the
\* device reports, after every reply the bytes read and the bytes
\* remaining add up to T and bytes_remaining has not wrapped;
\* every continuation leaves fewer bytes remaining than before and asks for
\* at least one and at most FSMaxBytesPerRequest bytes, so the read is over
\* after at most ceil(T / FSMaxBytesPerRequest) replies that return bytes.
C23_ReadMakesProgress ==
  /\ [](\A b \in Blocks :
          (fs.outstanding[b] /\ fs.blocks[b].command = "ReadFile") =>
             ReadBookkeeping(b))
  /\ [][\A b \in Blocks :
          ( /\ AppIoRuns("Finish", b)
            /\ fs.blocks[b].finishCmdFn = fsCmdBlockFinishReadCmdFn
            /\ appIo' # <<>> /\ Head(appIo').op = "Requeue" ) =>
             /\ fs'.blocks[b].readFile.bytesRemaining <
                  fs.blocks[b].readFile.bytesRemaining
             /\ fs'.blocks[b].readFile.bytesRemaining > 0
             /\ fs'.blocks[b].readFile.readSize >= 1
             /\ fs'.blocks[b].readFile.readSize <= FSMaxBytesPerRequest
             /\ fs'.finished = fs.finished]_vars

\* C24: the FIFO behaves as a bounded sequence: the requests it holds,
\* from popIndex on and modulo N, are the requests pushed and not yet
\* popped, oldest first; count is their number; and every successful pop
\* returns the oldest of them and removes it.
C24_FifoRefinesSequence ==
  /\ [](/\ fifo.count = Len(fifoShadow)
        /\ FifoContents(fifo) = fifoShadow
        /\ Len(fifoShadow) <= IPCBufferCount)
  /\ [][(fifoCall'.op = "pop" /\ fifoCall'.error = IOSError.OK) =>
          /\ fifoShadow # <<>>
          /\ fifoCall'.request = Head(fifoShadow)
          /\ fifoShadow' = Tail(fifoShadow)]_vars
  /\ [][(fifoCall'.op = "push" /\ fifoCall'.error = IOSError.OK) =>
          fifoShadow' = Append(fifoShadow, fifoCall'.request)]_vars

\* C24 witness: a pop has taken the request in the last slot, popIndex has
\* wrapped to slot 0, and the request left in the FIFO, pushed after the
\* one popped, is a different one.
C24_Witness ==
  /\ fifoCall.op = "pop" /\ fifoCall.error = IOSError.OK
  /\ fifoCall.before.popIndex = IPCBufferCount - 1
  /\ fifo.popIndex = 0
  /\ Len(fifoShadow) = 1
  /\ fifoShadow[1] # fifoCall.request
  /\ fifo.maxCount = IPCBufferCount

\* C25: a thread that is blocked in ipcDriverAllocateRequest while
\* free_fifo holds a request does not stay blocked: it is woken (and goes
\* round its pop loop again).
C25_BlockedAllocationWoken ==
  \A t \in Threads :
    (threads[t].pc = "allocWait" /\ driver.freeFifo.count > 0)
      ~> (threads[t].pc # "allocWait")

\* The client's queue is stuck in the Ready volume state: a command is
\* marked in flight, the device holds none, and neither the AppIO thread
\* nor the user's call has anything left to run.
StuckInReady ==
  /\ fsClientRegistered(fs) /\ ~fs.aborted
  /\ fs.client.fsm = FSVolumeState.Ready
  /\ fs.client.cmdQueue.activeCmds > 0
  /\ fs.inFlight = {} /\ appIo = <<>> /\ fsUser = <<>>

\* C26: once fsCmdBlockHandleResult has returned for the in-flight command
\* of a registered client the queue is not stuck in the Ready volume
\* state; in particular no reply returns with the in-flight marker set,
\* lastDequeuedCommand still at the block and the FSM unchanged.
C26_QueueNotStuckInReady ==
  /\ []~StuckInReady
  /\ [][\A b \in Blocks :
          (ReplyTo(b, fs'.blocks[b].fsaStatus) /\ fsClientRegistered(fs)
             /\ ~fs'.aborted /\ appIo' = <<>>) =>
            ~ /\ fs'.client.cmdQueue.activeCmds > 0
              /\ fs'.client.lastDequeuedCommand = b
              /\ fs'.client.fsm = fs.client.fsm]_vars

====
